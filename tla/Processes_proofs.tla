-------------------------- MODULE Processes_proofs --------------------------
(***************************************************************************)
(* Theorems about Processes, for any number of processes: the list, the    *)
(* pointers and the memory of processes stay right under every             *)
(* interleaving, as long as at most one process is ever in wait, as in the *)
(* boot image (a second reaper may destroy what the first one holds).      *)
(*                                                                         *)
(* A new process is put in front of the list and has the greatest pid so   *)
(* far, and nothing else is ever put on it: the list descends.  So the     *)
(* processes met from one on are those on the list with no greater pid,    *)
(* and what the recursive definitions of Processes compute is replaced by  *)
(* an inequality (FromIsBelow).                                            *)
(***************************************************************************)
EXTENDS Processes, Induction, FiniteSetTheorems, TLAPS

OneWaiter == \A v, w \in Waiters : v = w

Alive == Born \ (deleted \cup Destroying)

TypeInv ==
    /\ plist \in Ptr
    /\ pnext \in [Pids -> Ptr]
    /\ pparent \in [Pids -> Ptr]
    /\ state_ \in [Pids -> {"unborn", CHILD, ZOMBIE}]
    /\ sigchld \subseteq Ptr
    /\ pcurrent \in Pids
    /\ pc \in [Pids -> Label]
    /\ p \in [Pids -> Ptr]
    /\ pn \in [Pids -> Ptr]
    /\ space \in [Pids -> Space]
    /\ deleted \subseteq Pids
    /\ adopted \subseteq Pids
    /\ hung \in BOOLEAN

(* n is the greatest of S below x, or NULL if there is none.               *)
Below(n, x, S) ==
    /\ n \in S \cup {NULL}
    /\ n < x
    /\ \A y \in S : y < x => y <= n

(* Pids are given in order, and the list descends through those alive.     *)
BornInv ==
    /\ \E n \in INIT .. MaxPid : Born = KERNEL .. n
    /\ deleted \subseteq Born

ChainInv ==
    /\ Below(plist, MaxPid + 1, Alive)
    /\ \A x \in Alive : Below(pnext[x], x, Alive)

(* Those that wait run, and where they are on their way along the list.    *)
WalkInv ==
    /\ \A w \in Pids :
        /\ pc[w] \notin {"user", "spin"} => w \in Waiters /\ state_[w] = CHILD
        /\ pc[w] = "test" => p[w] \in Alive \cup {NULL}
        /\ pc[w] = "destroy" => p[w] \in Alive
        /\ pc[w] = "delete" => p[w] \in Born \ deleted
        /\ pc[w] \in {"destroy", "delete"} => Reapable(p[w]) /\ Below(pn[w], p[w], Alive)

(* Parents are older than their children, and not deleted while a child    *)
(* can follow the pointer.                                                 *)
ParentInv ==
    \A c \in Born \ deleted : pparent[c] < c /\ pparent[c] \notin deleted

(* The kernel's own process stays, and so does the one that runs, which is *)
(* a zombie only while it spins.                                           *)
CurrentInv ==
    /\ KERNEL \in Alive /\ state_[KERNEL] = ZOMBIE
    /\ pcurrent \in Alive
    /\ pc[pcurrent] = "spin" \/ state_[pcurrent] = CHILD

(* Memory is freed when a process leaves the list, and not before.         *)
SpaceInv ==
    \A x \in Pids :
        /\ state_[x] = CHILD => space[x] = "live"
        /\ space[x] \in IF x \in Alive \ {KERNEL} THEN {"live", "unloaded"}
                        ELSE {"none", "freed", "again"}

(* ExitIsNoticed, with inequalities for walks.                             *)
NoticedBy(w, z) ==
    \/ w \in sigchld
    \/ pc[w] = "clear"
    \/ pc[w] \in {"test", "destroy"} /\ z <= p[w]
    \/ pc[w] = "delete" /\ z <= pn[w]

NoticedInv ==
    \A z \in Alive \ (adopted \cup {KERNEL}) :
        state_[z] = ZOMBIE /\ space[z] = "live" /\ pparent[z] \in Waiters =>
            NoticedBy(pparent[z], z)

LifeInv ==
    /\ TypeInv
    /\ BornInv
    /\ ChainInv
    /\ WalkInv
    /\ ParentInv
    /\ CurrentInv
    /\ SpaceInv
    /\ NoticedInv

-----------------------------------------------------------------------------
(* What the walks of Processes meet.                                       *)

(* hop follows the links from q, within X, and meets what From(q) is.      *)
Walks(hop, q, X) ==
    /\ hop \in [0 .. MaxPid -> X]
    /\ \A y : y \in From(q) <=> y # NULL /\ \E i \in 0 .. MaxPid : y = hop[i]
    /\ hop[0] = q
    /\ \A i \in 1 .. MaxPid :
          hop[i] = IF hop[i - 1] = NULL THEN NULL ELSE pnext[hop[i - 1]]

(* There is such a walk, when the links stay within X.                     *)
LEMMA FromHops ==
    ASSUME NEW X, NEW q \in X, NULL \in X, MaxPid \in Nat,
           \A x \in X \ {NULL} : pnext[x] \in X
    PROVE  \E hop : Walks(hop, q, X)
<1> DEFINE step == [x \in X |-> IF x = NULL THEN NULL ELSE pnext[x]]
           H(h) == [i \in 0 .. MaxPid |->
                      IF i = 0 THEN q
                      ELSE IF h[i - 1] = NULL THEN NULL ELSE pnext[h[i - 1]]]
           hop == CHOOSE h : h = H(h)
<1>1. step \in [X -> X]
  OBVIOUS
<1>2. PICK f \in [0 .. MaxPid -> X] : Iterates(f, MaxPid, q, step)
  BY <1>1, IteratesExist
<1>3. f = H(f)
  <2>1. ASSUME NEW i \in 0 .. MaxPid PROVE f[i] = H(f)[i]
    <3>1. CASE i = 0
      BY <3>1, <1>2 DEF Iterates
    <3>2. CASE i # 0
      <4>1. i \in 1 .. MaxPid /\ i - 1 \in 0 .. MaxPid
        BY <3>2
      <4>2. f[i] = step[f[i - 1]] /\ f[i - 1] \in X
        BY <4>1, <1>2 DEF Iterates
      <4> QED BY <4>2, <3>2
    <3> QED BY <3>1, <3>2
  <2> QED BY <2>1
<1>4. hop = H(hop)
  BY <1>3
<1>5. From(q) = {hop[i] : i \in 0 .. MaxPid} \ {NULL}
  BY DEF From
<1>6. \A i \in 1 .. MaxPid :
        hop[i] = IF hop[i - 1] = NULL THEN NULL ELSE pnext[hop[i - 1]]
  <2> HIDE DEF hop
  <2> TAKE i \in 1 .. MaxPid
  <2>1. i \in 0 .. MaxPid /\ i # 0
    OBVIOUS
  <2>2. hop[i] = H(hop)[i]
    BY <1>4
  <2> QED BY <2>1, <2>2
<1>7. hop[0] = q
  <2> HIDE DEF hop
  <2>1. hop[0] = H(hop)[0]
    BY <1>4
  <2> QED BY <2>1
<1>8. 0 .. MaxPid \subseteq {i \in 0 .. MaxPid : hop[i] \in X}
  <2> DEFINE S == {i \in 0 .. MaxPid : hop[i] \in X}
  <2>1. 0 \in S
    <3> HIDE DEF hop
    <3> QED BY <1>7
  <2>2. ASSUME NEW i \in 1 .. MaxPid, i - 1 \in S PROVE i \in S
    <3> HIDE DEF hop
    <3> QED BY <1>6, <2>2
  <2>3. 0 .. MaxPid \subseteq S
    <3> HIDE DEF S
    <3> QED BY <2>1, <2>2, RangeInduction
  <2> QED BY <2>3
<1>9. hop \in [0 .. MaxPid -> X]
  <2>1. \A i \in 0 .. MaxPid : hop[i] \in X
    BY <1>8
  <2>2. hop = [i \in 0 .. MaxPid |-> hop[i]]
    <3> HIDE DEF hop
    <3>1. H(hop) = [i \in 0 .. MaxPid |-> H(hop)[i]]
      OBVIOUS
    <3> HIDE DEF H
    <3> QED BY <1>4, <3>1
  <2> HIDE DEF hop
  <2> QED BY <2>1, <2>2
<1>10. \A y : y \in From(q) <=> y # NULL /\ \E i \in 0 .. MaxPid : y = hop[i]
  <2> HIDE DEF hop
  <2> QED BY <1>5
<1> HIDE DEF hop
<1> QED BY <1>6, <1>7, <1>9, <1>10 DEF Walks

(* Only processes wait.                                                    *)
LEMMA WaitersArePids == Waiters \subseteq Pids
BY ProcessesAssumption DEF Pids, KERNEL, INIT

(* Those alive have pids, and there are no more than were given.           *)
LEMMA AliveArePids ==
    ASSUME TypeInv, BornInv
    PROVE  /\ MaxPid \in Nat
           /\ Alive \subseteq 1 .. MaxPid
           /\ \A y \in Alive \cup {NULL} : y \in 0 .. MaxPid
BY ProcessesAssumption DEF Alive, Born, Pids, Ptr, KERNEL, NULL, INIT

(* One step of a walk goes down, and does not pass one that is alive.      *)
LEMMA LinkIsBelow ==
    ASSUME TypeInv, BornInv, ChainInv, NEW x \in Alive
    PROVE  /\ pnext[x] \in Alive \cup {NULL}
           /\ pnext[x] \in 0 .. MaxPid
           /\ pnext[x] < x
           /\ \A y \in Alive : y < x => y <= pnext[x]
<1>1. \A y \in Alive \cup {NULL} : y \in 0 .. MaxPid
  BY AliveArePids
<1>2. /\ pnext[x] \in Alive \cup {NULL}
      /\ pnext[x] < x
      /\ \A y \in Alive : y < x => y <= pnext[x]
  BY DEF ChainInv, Below
<1> QED BY <1>1, <1>2

(* The walk along the links from q meets the processes of the list with no *)
(* greater pid: as long as y has not been met, the walk is above y, and it *)
(* goes down with every step.                                              *)
LEMMA FromIsBelow ==
    ASSUME TypeInv, BornInv, ChainInv, NEW q \in Alive \cup {NULL}
    PROVE  From(q) = {y \in Alive : y <= q}
<1> DEFINE X == {x \in Alive \cup {NULL} : x <= q}
<1>1. MaxPid \in Nat /\ Alive \subseteq 1 .. MaxPid
  BY AliveArePids
<1>2. q \in X /\ NULL \in X /\ q \in 0 .. MaxPid
  BY <1>1 DEF NULL
<1>3. ASSUME NEW x \in X \ {NULL} PROVE pnext[x] \in X
  <2>1. x \in Alive /\ x \in 1 .. MaxPid /\ x <= q
    BY <1>1 DEF NULL
  <2>2. pnext[x] \in Alive \cup {NULL} /\ pnext[x] < x /\ pnext[x] \in 0 .. MaxPid
    BY <2>1, LinkIsBelow
  <2> QED BY <1>2, <2>1, <2>2
<1>4. PICK hop : Walks(hop, q, X)
  <2> HIDE DEF X
  <2> QED BY <1>1, <1>2, <1>3, FromHops
<1>5. ASSUME NEW y \in From(q) PROVE y \in Alive /\ y <= q
  <2>1. y \in X /\ y # NULL
    <3> HIDE DEF X
    <3> QED BY <1>4 DEF Walks
  <2> QED BY <2>1
<1>6. ASSUME NEW y \in Alive, y <= q PROVE y \in From(q)
  <2> DEFINE S == {i \in 0 .. MaxPid : \/ \E j \in 0 .. i : hop[j] = y
                                      \/ (y < hop[i] /\ hop[i] <= MaxPid - i)}
  <2>1. 0 \in S
    <3>1. 0 \in 0 .. MaxPid /\ 0 \in 0 .. 0
      BY <1>1
    <3>2. q = y \/ (y < q /\ q <= MaxPid - 0)
      BY <1>1, <1>2, <1>6
    <3> QED BY <3>1, <3>2, <1>4 DEF Walks
  <2>2. ASSUME NEW i \in 1 .. MaxPid, i - 1 \in S PROVE i \in S
    <3>1. CASE \E j \in 0 .. i - 1 : hop[j] = y
      BY <3>1
    <3>2. CASE y < hop[i - 1] /\ hop[i - 1] <= MaxPid - (i - 1)
      <4>1. PICK x \in X : x = hop[i - 1]
        <5>1. i - 1 \in 0 .. MaxPid
          BY <1>1
        <5> HIDE DEF X
        <5> QED BY <1>4, <5>1 DEF Walks
      <4>2. x \in Alive /\ x \in 1 .. MaxPid /\ y \in 1 .. MaxPid
        BY <1>1, <3>2, <4>1 DEF NULL
      <4>3. hop[i] = pnext[x]
        <5> HIDE DEF X
        <5> QED BY <1>4, <4>1, <4>2 DEF Walks, NULL
      <4>4. pnext[x] \in 0 .. MaxPid /\ pnext[x] < x /\ y <= pnext[x]
        BY <3>2, <4>1, <4>2, LinkIsBelow
      <4>5. x <= MaxPid - (i - 1)
        BY <3>2, <4>1
      <4>6. hop[i] = y \/ (y < hop[i] /\ hop[i] <= MaxPid - i)
        BY <1>1, <4>2, <4>3, <4>4, <4>5
      <4>7. i \in 0 .. i /\ i \in 0 .. MaxPid
        BY <1>1
      <4> QED BY <4>6, <4>7
    <3> QED BY <2>2, <3>1, <3>2
  <2>3. MaxPid \in S
    <3>1. 0 .. MaxPid \subseteq S
      <4> HIDE DEF S
      <4> QED BY <1>1, <2>1, <2>2, RangeInduction
    <3> QED BY <1>1, <3>1
  <2>4. \E j \in 0 .. MaxPid : hop[j] = y
    <3>1. CASE y < hop[MaxPid] /\ hop[MaxPid] <= MaxPid - MaxPid
      <4>1. MaxPid \in 0 .. MaxPid /\ y \in 1 .. MaxPid
        BY <1>1
      <4>2. hop[MaxPid] \in Alive \cup {NULL}
        BY <1>4, <4>1 DEF Walks
      <4>3. hop[MaxPid] \in 0 .. MaxPid
        BY <4>2, AliveArePids
      <4> QED BY <1>1, <3>1, <4>1, <4>3
    <3> QED BY <2>3, <3>1
  <2>5. y # NULL
    BY <1>1 DEF NULL
  <2> QED BY <2>4, <2>5, <1>4 DEF Walks
<1> QED BY <1>5, <1>6

(* The list is what is alive.                                              *)
LEMMA OnListIsAlive ==
    ASSUME TypeInv, BornInv, ChainInv
    PROVE  OnList = Alive
<1>1. MaxPid \in Nat /\ Alive \subseteq 1 .. MaxPid
  BY AliveArePids
<1>2. plist \in Alive \cup {NULL} /\ \A y \in Alive : y <= plist
  BY <1>1 DEF ChainInv, Below
<1>3. From(plist) = {y \in Alive : y <= plist}
  BY <1>2, FromIsBelow
<1> QED BY <1>2, <1>3 DEF OnList

(* Whatever the scheduler looks at is on the list.                         *)
LEMMA HopsAreAlive ==
    ASSUME TypeInv, BornInv, ChainInv, CurrentInv
    PROVE  \A i \in 0 .. Hops : HopOf[i] \in Alive
<1> DEFINE next(x) == IF pnext[x] = NULL THEN plist ELSE pnext[x]
           step == [x \in Alive |-> next(x)]
           H(h) == [i \in 0 .. Hops |->
                      IF i = 0 THEN pcurrent
                      ELSE IF pnext[h[i - 1]] = NULL THEN plist ELSE pnext[h[i - 1]]]
           hop == CHOOSE h : h = H(h)
<1>1. MaxPid \in Nat /\ Alive \subseteq 1 .. MaxPid /\ Hops \in Nat
  BY AliveArePids DEF Hops
<1>2. plist \in Alive /\ pcurrent \in Alive
  BY <1>1 DEF ChainInv, Below, CurrentInv, KERNEL, NULL
<1>3. \A x \in Alive : next(x) \in Alive
  BY <1>1, <1>2 DEF ChainInv, Below, NULL
<1>4. step \in [Alive -> Alive]
  BY <1>3
<1>5. PICK f \in [0 .. Hops -> Alive] : Iterates(f, Hops, pcurrent, step)
  <2> HIDE DEF step
  <2> QED BY <1>1, <1>2, <1>4, IteratesExist
<1>6. f = H(f)
  <2>1. ASSUME NEW i \in 0 .. Hops PROVE f[i] = H(f)[i]
    <3>1. CASE i = 0
      BY <3>1, <1>5 DEF Iterates
    <3>2. CASE i # 0
      <4>1. i \in 1 .. Hops /\ i - 1 \in 0 .. Hops
        BY <1>1, <3>2
      <4>2. f[i] = step[f[i - 1]] /\ f[i - 1] \in Alive
        BY <4>1, <1>5 DEF Iterates
      <4> QED BY <4>2, <3>2
    <3> QED BY <3>1, <3>2
  <2> QED BY <2>1
<1>7. hop = H(hop)
  BY <1>6
<1>8. ASSUME NEW i \in 1 .. Hops PROVE hop[i] = next(hop[i - 1])
  <2>1. i \in 0 .. Hops /\ i # 0
    BY <1>1
  <2> HIDE DEF hop
  <2>2. hop[i] = H(hop)[i]
    BY <1>7
  <2> QED BY <2>1, <2>2
<1>9. \A i \in 0 .. Hops : hop[i] \in Alive
  <2> DEFINE S == {i \in 0 .. Hops : hop[i] \in Alive}
  <2>1. 0 \in S
    <3> HIDE DEF hop
    <3>1. 0 \in 0 .. Hops
      BY <1>1
    <3>2. hop[0] = H(hop)[0]
      BY <1>7
    <3> QED BY <1>2, <3>1, <3>2
  <2>2. ASSUME NEW i \in 1 .. Hops, i - 1 \in S PROVE i \in S
    <3>1. next(hop[i - 1]) \in Alive
      <4> HIDE DEF hop, next
      <4> QED BY <1>3, <2>2
    <3> HIDE DEF hop, next
    <3> QED BY <1>8, <3>1
  <2>3. 0 .. Hops \subseteq S
    <3> HIDE DEF S
    <3> QED BY <1>1, <2>1, <2>2, RangeInduction
  <2> QED BY <2>3
<1>10. HopOf = hop
  BY DEF HopOf
<1> QED BY <1>9, <1>10

(* So what it chooses is on the list, and not a zombie.                    *)
LEMMA ScheduleAlive ==
    ASSUME TypeInv, BornInv, ChainInv, CurrentInv, schedule
    PROVE  /\ pcurrent' \in Alive
           /\ hung' \in BOOLEAN
           /\ pcurrent' = pcurrent \/ state_'[pcurrent'] # ZOMBIE
<1>1. \A i \in 1 .. Hops : HopOf[i] \in Alive
  <2>1. Hops \in Nat
    BY ProcessesAssumption DEF Hops
  <2> QED BY <2>1, HopsAreAlive
<1>2. \/ pcurrent' = pcurrent /\ hung' = hung
      \/ \E i \in 1 .. Hops :
            pcurrent' = HopOf[i] /\ hung' = hung /\ state_'[HopOf[i]] # ZOMBIE
      \/ hung' = TRUE /\ pcurrent' = pcurrent
  BY DEF schedule
<1> QED BY <1>1, <1>2 DEF CurrentInv, TypeInv

-----------------------------------------------------------------------------
(* LifeInv is inductive: one lemma for each kind of step.                  *)

(* The boot image satisfies the invariant.                                 *)
LEMMA InitLife == Init => LifeInv
<1> SUFFICES ASSUME Init PROVE LifeInv
  OBVIOUS
<1> USE ProcessesAssumption DEF KERNEL, INIT, NULL
<1>1. TypeInv
  <2>1. /\ plist \in Ptr /\ pcurrent \in Pids
        /\ pnext \in [Pids -> Ptr] /\ pparent \in [Pids -> Ptr]
        /\ p \in [Pids -> Ptr] /\ pn \in [Pids -> Ptr]
    BY DEF Init, Ptr, Pids, FirstCurrent
  <2>2. state_ \in [Pids -> {"unborn", CHILD, ZOMBIE}] /\ pc \in [Pids -> Label]
    BY DEF Init, Pids, Label, CHILD, ZOMBIE
  <2>3. space \in [Pids -> Space]
    BY DEF Init, Pids, Space
  <2> QED BY <2>1, <2>2, <2>3 DEF Init, TypeInv
<1>2. Born = 1 .. 2
  <2>1. \A x \in Pids : state_[x] # "unborn" <=> x \in 1 .. 2
    BY DEF Init, Pids, CHILD, ZOMBIE
  <2>2. 1 .. 2 \subseteq Pids
    BY DEF Pids
  <2> QED BY <2>1, <2>2 DEF Born
<1>3. Alive = 1 .. 2
  <2>1. Destroying = {} /\ deleted = {}
    BY DEF Init, Destroying, Pids
  <2> QED BY <1>2, <2>1 DEF Alive
<1>4. BornInv
  <2>1. 2 \in INIT .. MaxPid /\ deleted \subseteq Born
    BY DEF Init
  <2> QED BY <1>2, <2>1 DEF BornInv
<1>5. ChainInv
  BY <1>3 DEF ChainInv, Below, Init, Pids
<1>6. WalkInv
  BY DEF WalkInv, Init, Pids
<1>7. ParentInv
  BY <1>2 DEF ParentInv, Init, Pids
<1>8. CurrentInv
  BY <1>3 DEF CurrentInv, Init, Pids, FirstCurrent
<1>9. SpaceInv
  BY <1>3 DEF SpaceInv, Init, Pids, ZOMBIE, CHILD
<1>10. NoticedInv
  <2>1. \A z \in Alive \ {KERNEL} : state_[z] # ZOMBIE
    BY <1>3 DEF Init, Pids, ZOMBIE, CHILD
  <2> QED BY <2>1 DEF NoticedInv
<1> QED BY <1>1, <1>4, <1>5, <1>6, <1>7, <1>8, <1>9, <1>10 DEF LifeInv

(* The processor changes hands, or a signal is raised.                     *)
LEMMA QuietLife ==
    ASSUME LifeInv, pcurrent' \in Alive, hung' \in BOOLEAN,
           pcurrent' = pcurrent \/ state_'[pcurrent'] # ZOMBIE,
           sigchld \subseteq sigchld', sigchld' \subseteq Ptr,
           UNCHANGED <<plist, pnext, pparent, state_, pc, p, pn, space, deleted, adopted>>
    PROVE  LifeInv'
<1>1. TypeInv'
  BY DEF LifeInv, TypeInv, CurrentInv, Alive, Born
<1>2. Alive' = Alive /\ Born' = Born
  BY DEF Alive, Born, Destroying
<1>3. BornInv' /\ ChainInv'
  BY <1>2 DEF LifeInv, BornInv, ChainInv
<1>4. WalkInv'
  BY <1>2 DEF LifeInv, WalkInv, Reapable
<1>5. ParentInv' /\ SpaceInv'
  BY <1>2 DEF LifeInv, ParentInv, SpaceInv
<1>6. CurrentInv'
  <2>1. state_[pcurrent'] \in {CHILD, ZOMBIE}
    BY DEF LifeInv, TypeInv, Alive, Born
  <2> QED BY <1>2, <2>1 DEF LifeInv, CurrentInv
<1>7. NoticedInv'
  BY <1>2 DEF LifeInv, NoticedInv, NoticedBy
<1> QED BY <1>1, <1>3, <1>4, <1>5, <1>6, <1>7 DEF LifeInv

(* The running process ends: no walk of another is disturbed, since the    *)
(* one that ends is not in wait.                                           *)
LEMMA EndingLife ==
    ASSUME LifeInv, NEW q \in Pids, q = pcurrent, pc[q] = "user",
           exit(q), Goto(q, "spin"), pcurrent' \in Alive, hung' \in BOOLEAN,
           pcurrent' = pcurrent \/ state_'[pcurrent'] # ZOMBIE,
           UNCHANGED <<plist, pnext, pparent, p, pn, space, deleted, adopted>>
    PROVE  LifeInv'
<1>1. /\ TypeInv /\ q \in Alive /\ q \in Born
      /\ state_' = [state_ EXCEPT ![q] = ZOMBIE]
      /\ pc' = [pc EXCEPT ![q] = "spin"]
      /\ sigchld \subseteq sigchld'
      /\ pparent[q] # NULL => pparent[q] \in sigchld'
  BY DEF LifeInv, CurrentInv, Alive, exit, Raise, Goto
<1>2. TypeInv'
  BY <1>1 DEF LifeInv, TypeInv, CurrentInv, Alive, Born, exit, Raise, Goto, Label
<1>3. Born' = Born
  BY <1>1 DEF Born, TypeInv, ZOMBIE
<1>4. Destroying' = Destroying
  <2>1. \A r \in Pids : pc'[r] = "delete" <=> pc[r] = "delete"
    BY <1>1 DEF TypeInv
  <2> QED BY <2>1 DEF Destroying
<1>5. Alive' = Alive
  BY <1>3, <1>4 DEF Alive
<1>6. BornInv' /\ ChainInv' /\ ParentInv'
  BY <1>3, <1>5 DEF LifeInv, BornInv, ChainInv, ParentInv
<1>7. WalkInv'
  <2>1. ASSUME NEW w \in Pids, pc'[w] \notin {"user", "spin"}
        PROVE  w # q /\ pc'[w] = pc[w] /\ state_'[w] = state_[w]
    BY <1>1, <2>1 DEF TypeInv
  <2>2. ASSUME NEW z \in Ptr, Reapable(z) PROVE Reapable(z)'
    BY <1>1, <2>2 DEF TypeInv, Reapable, Ptr, Pids, NULL, KERNEL
  <2>3. \A w \in Pids : p[w] \in Ptr
    BY <1>1 DEF TypeInv
  <2> QED BY <1>3, <1>5, <2>1, <2>2, <2>3 DEF LifeInv, WalkInv, CHILD
<1>8. CurrentInv'
  <2>1. KERNEL \in Pids /\ pcurrent' \in Pids /\ state_[KERNEL] = ZOMBIE
    BY DEF LifeInv, CurrentInv, Alive, Born
  <2>2. state_'[KERNEL] = ZOMBIE
    BY <1>1, <2>1 DEF TypeInv
  <2>3. pc'[q] = "spin"
    BY <1>1 DEF TypeInv
  <2>4. state_'[pcurrent'] \in {CHILD, ZOMBIE}
    <3>1. pcurrent' \in Born'
      BY <1>3 DEF Alive
    <3> QED BY <1>2, <3>1 DEF Born, TypeInv
  <2> QED BY <1>5, <2>2, <2>3, <2>4 DEF LifeInv, CurrentInv
<1>9. SpaceInv'
  BY <1>1, <1>5 DEF LifeInv, SpaceInv, TypeInv, ZOMBIE, CHILD
<1>10. NoticedInv'
  <2>1. ASSUME NEW w \in Pids, NEW z \in Alive, NoticedBy(w, z) PROVE NoticedBy(w, z)'
    BY <1>1, <2>1 DEF NoticedBy, TypeInv
  <2>2. ASSUME NEW z \in Alive \ (adopted \cup {KERNEL}), state_'[z] = ZOMBIE,
               space[z] = "live", pparent[z] \in Waiters
        PROVE  NoticedBy(pparent[z], z)'
    <3>1. CASE z = q
      BY <1>1, <2>2, <3>1, ProcessesAssumption DEF NoticedBy, NULL, INIT
    <3>2. CASE z # q
      <4>1. state_[z] = ZOMBIE /\ pparent[z] \in Pids
        <5>1. z \in Pids
          BY <2>2 DEF Alive, Born
        <5>2. state_[z] = ZOMBIE
          BY <1>1, <2>2, <3>2, <5>1 DEF TypeInv
        <5>3. pparent[z] \in Pids
          BY <2>2, WaitersArePids
        <5> QED BY <5>2, <5>3
      <4> QED BY <2>1, <2>2, <4>1 DEF LifeInv, NoticedInv
    <3> QED BY <3>1, <3>2
  <2> QED BY <1>5, <2>2 DEF NoticedInv
<1> QED BY <1>2, <1>6, <1>7, <1>8, <1>9, <1>10 DEF LifeInv

(* A step of wait or of the walk of the one process q that is in wait: it  *)
(* is enough that it leaves q where WalkInv says, with SIGCHLD not lost    *)
(* for a zombie that is not ahead of it.                                   *)
LEMMA WalkingLife ==
    ASSUME LifeInv, OneWaiter, NEW q \in Waiters, q \in Pids, NEW label \in Label,
           q = pcurrent, state_[q] = CHILD,
           pc' = [pc EXCEPT ![q] = label], label # "delete", pc[q] # "delete",
           p' \in [Pids -> Ptr], \A w \in Pids \ {q} : p'[w] = p[w],
           pn' \in [Pids -> Ptr], \A w \in Pids \ {q} : pn'[w] = pn[w],
           sigchld' \subseteq sigchld, sigchld \subseteq sigchld' \cup {q},
           UNCHANGED <<plist, pnext, pparent, state_, pcurrent, space, deleted,
                       adopted, hung>>,
           label = "test" => p'[q] \in Alive \cup {NULL},
           label = "destroy" => /\ p'[q] \in Alive
                                /\ Reapable(p'[q])
                                /\ Below(pn'[q], p'[q], Alive),
           \A z \in Alive \ {KERNEL} :
               state_[z] = ZOMBIE /\ NoticedBy(q, z) => NoticedBy(q, z)'
    PROVE  LifeInv' /\ Alive' = Alive
<1>1. TypeInv
  BY DEF LifeInv
<1>2. TypeInv'
  BY DEF LifeInv, TypeInv
<1>3. \A w \in Pids \ {q} : pc'[w] = pc[w] /\ pc[w] \in {"user", "spin"}
  BY <1>1 DEF LifeInv, WalkInv, OneWaiter, TypeInv
<1>4. pc'[q] = label
  BY <1>1 DEF TypeInv
<1>5. Destroying' = {} /\ Destroying = {}
  BY <1>3, <1>4 DEF Destroying
<1>6. Alive' = Alive /\ Born' = Born
  BY <1>5 DEF Alive, Born
<1>7. BornInv' /\ ChainInv' /\ ParentInv' /\ CurrentInv' /\ SpaceInv'
  BY <1>6 DEF LifeInv, BornInv, ChainInv, ParentInv, CurrentInv, SpaceInv
<1>8. WalkInv'
  <2>1. ASSUME NEW w \in Pids \ {q}
        PROVE  pc'[w] \in {"user", "spin"}
    BY <1>3
  <2>2. /\ pc'[q] \notin {"user", "spin"} => q \in Waiters /\ state_'[q] = CHILD
        /\ pc'[q] = "test" => p'[q] \in Alive' \cup {NULL}
        /\ pc'[q] = "destroy" => p'[q] \in Alive'
        /\ pc'[q] # "delete"
        /\ pc'[q] = "destroy" => Reapable(p[q])' /\ Below(pn[q], p[q], Alive)'
    BY <1>4, <1>6 DEF Reapable
  <2> QED BY <2>1, <2>2 DEF WalkInv
<1>9. NoticedInv'
  <2>1. ASSUME NEW w \in Waiters, NEW z \in Alive \ {KERNEL}, state_[z] = ZOMBIE,
               NoticedBy(w, z)
        PROVE  NoticedBy(w, z)'
    BY <2>1 DEF OneWaiter
  <2>2. ASSUME NEW z \in Alive \ (adopted \cup {KERNEL}), state_[z] = ZOMBIE,
               space[z] = "live", pparent[z] \in Waiters
        PROVE  NoticedBy(pparent[z], z)'
    BY <2>1, <2>2 DEF LifeInv, NoticedInv
  <2> QED BY <1>6, <2>2 DEF NoticedInv
<1> QED BY <1>2, <1>6, <1>7, <1>8, <1>9 DEF LifeInv

(* A new process goes in front, with the greatest pid.                     *)
LEMMA ExecvLife ==
    ASSUME LifeInv, NEW q \in Pids, Execv(q)
    PROVE  LifeInv'
<1> DEFINE c == Cardinality(Born) + 1
<1>1. PICK n \in INIT .. MaxPid : Born = KERNEL .. n
  BY DEF LifeInv, BornInv
<1>2. c = n + 1 /\ n + 1 \in 3 .. MaxPid /\ n \in 2 .. MaxPid /\ MaxPid \in Nat
  <2>1. Cardinality(KERNEL .. n) = n
    BY <1>1, FS_Interval, ProcessesAssumption DEF KERNEL, INIT
  <2>2. Cardinality(Born) < MaxPid
    BY DEF Execv
  <2> QED BY <1>1, <2>1, <2>2, ProcessesAssumption DEF KERNEL, INIT
<1> HIDE DEF c
<1>3. c \in Pids /\ c \notin Born /\ state_[c] = "unborn"
  BY <1>1, <1>2 DEF Pids, KERNEL, Born
<1>4. /\ TypeInv
      /\ \A y \in Alive : y \in 1 .. n
      /\ Alive \subseteq Born /\ Alive \subseteq Pids
      /\ c \notin Alive /\ q \in Alive /\ q < c
  BY <1>1, <1>2 DEF LifeInv, CurrentInv, Alive, Born, KERNEL, Execv, At
<1>5. /\ plist' = c
      /\ pnext' = [pnext EXCEPT ![c] = plist]
      /\ pparent' = [pparent EXCEPT ![c] = q]
      /\ \/ /\ state_' = [state_ EXCEPT ![c] = CHILD]
            /\ space' = [space EXCEPT ![c] = "live"]
         \/ /\ state_' = [state_ EXCEPT ![c] = ZOMBIE]
            /\ space' = [space EXCEPT ![c] = "unloaded"]
      /\ UNCHANGED <<sigchld, pcurrent, pc, p, pn, deleted, adopted, hung>>
  BY DEF Execv, c
<1>6. TypeInv'
  <2>1. c \in Ptr /\ q \in Ptr
    BY <1>3 DEF Pids, Ptr, NULL, KERNEL
  <2> QED BY <1>3, <1>4, <1>5, <2>1 DEF TypeInv, Space
<1>7. Born' = Born \cup {c}
  BY <1>3, <1>4, <1>5 DEF Born, TypeInv, CHILD, ZOMBIE
<1>8. c \notin deleted /\ c \notin Destroying
  <2>1. \A w \in Pids : pc[w] = "delete" => p[w] \in Born
    BY DEF LifeInv, WalkInv
  <2>2. \A x \in deleted : x \in Born
    BY DEF LifeInv, BornInv
  <2> QED BY <1>3, <2>1, <2>2 DEF Destroying
<1>9. Alive' = Alive \cup {c}
  BY <1>5, <1>7, <1>8 DEF Alive, Destroying
<1>10. BornInv'
  <2>1. Born' = KERNEL .. n + 1
    BY <1>1, <1>2, <1>7 DEF KERNEL
  <2>2. deleted' \subseteq Born'
    BY <1>5, <1>7 DEF LifeInv, BornInv
  <2> QED BY <1>2, <2>1, <2>2 DEF BornInv, INIT
<1>11. ChainInv'
  <2>1. plist \in Alive \cup {NULL} /\ plist < c /\ \A y \in Alive : y <= plist
    <3>1. /\ plist \in Alive \cup {NULL}
          /\ \A y \in Alive : y < MaxPid + 1 => y <= plist
      BY DEF LifeInv, ChainInv, Below
    <3>2. \A y \in Alive : y < MaxPid + 1
      BY <1>2, <1>4
    <3>3. plist < c
      BY <1>2, <1>4, <3>1 DEF NULL
    <3> QED BY <3>1, <3>2, <3>3
  <2>2. pnext'[c] = plist
    BY <1>3, <1>4, <1>5 DEF TypeInv
  <2>3. Below(plist, c, Alive \cup {c})
    BY <1>2, <2>1 DEF Below
  <2>4. Below(c, MaxPid + 1, Alive \cup {c})
    <3>1. \A y \in Alive \cup {c} : y <= c
      BY <1>2, <1>4
    <3> QED BY <1>2, <3>1 DEF Below
  <2>5. ASSUME NEW x \in Alive PROVE Below(pnext'[x], x, Alive \cup {c})
    <3>1. x \in 1 .. n
      BY <1>4
    <3>2. pnext'[x] = pnext[x]
      BY <1>2, <1>4, <1>5, <3>1 DEF TypeInv
    <3>3. Below(pnext[x], x, Alive)
      BY DEF LifeInv, ChainInv
    <3>4. \A y \in Alive \cup {c} : y < x => y \in Alive
      BY <1>2, <3>1
    <3> QED BY <3>2, <3>3, <3>4 DEF Below
  <2> QED BY <1>5, <1>9, <2>2, <2>3, <2>4, <2>5 DEF ChainInv
<1>12. ASSUME NEW w \in Pids, pc[w] \notin {"user", "spin"}
       PROVE  w # c /\ state_'[w] = state_[w]
  <2>1. state_[w] = CHILD
    BY <1>12 DEF LifeInv, WalkInv
  <2> QED BY <1>3, <1>4, <1>5, <2>1 DEF TypeInv, CHILD
<1>13. WalkInv'
  <2>1. ASSUME NEW w \in Pids
        PROVE  /\ pc[w] \notin {"user", "spin"} => w \in Waiters /\ state_'[w] = CHILD
               /\ pc[w] = "test" => p[w] \in Alive' \cup {NULL}
               /\ pc[w] = "destroy" => p[w] \in Alive'
               /\ pc[w] = "delete" => p[w] \in Born' \ deleted
    BY <1>7, <1>9, <1>12 DEF LifeInv, WalkInv
  <2>2. ASSUME NEW w \in Pids, pc[w] \in {"destroy", "delete"}
        PROVE  Reapable(p[w])' /\ Below(pn[w], p[w], Alive')
    <3>1. p[w] \in Born /\ Reapable(p[w]) /\ Below(pn[w], p[w], Alive)
      BY <2>2, <1>4 DEF LifeInv, WalkInv
    <3>2. p[w] \in 1 .. n /\ p[w] \in Pids
      BY <1>1, <3>1 DEF KERNEL, Born
    <3>3. state_'[p[w]] = state_[p[w]]
      BY <1>2, <1>4, <1>5, <3>2 DEF TypeInv
    <3>4. \A y \in Alive \cup {c} : y < p[w] => y \in Alive
      BY <1>2, <3>2
    <3> QED BY <1>5, <1>9, <3>1, <3>3, <3>4 DEF Reapable, Below
  <2> QED BY <1>5, <2>1, <2>2 DEF WalkInv
<1>14. ParentInv'
  <2>1. pparent'[c] = q /\ \A x \in Pids \ {c} : pparent'[x] = pparent[x]
    BY <1>3, <1>4, <1>5 DEF TypeInv
  <2>2. q \notin deleted
    BY <1>4 DEF Alive
  <2>3. \A x \in Born \ deleted : x # c /\ x \in Pids
    BY <1>3 DEF Born
  <2> QED BY <1>4, <1>5, <1>7, <2>1, <2>2, <2>3 DEF LifeInv, ParentInv
<1>15. CurrentInv'
  <2>1. KERNEL \in Alive /\ state_[KERNEL] = ZOMBIE /\ pcurrent \in Alive
    BY DEF LifeInv, CurrentInv
  <2>2. state_'[KERNEL] = ZOMBIE
    BY <1>4, <1>5, <2>1 DEF TypeInv
  <2>3. pc[pcurrent] = "spin" \/ state_'[pcurrent] = CHILD
    BY <1>3, <1>4, <1>5, <2>1 DEF LifeInv, CurrentInv, TypeInv
  <2> QED BY <1>5, <1>9, <2>1, <2>2, <2>3 DEF CurrentInv
<1>16. SpaceInv'
  <2>1. c # KERNEL
    BY <1>2 DEF KERNEL
  <2>2. ASSUME NEW x \in Pids \ {c}
        PROVE  state_'[x] = state_[x] /\ space'[x] = space[x] /\ (x \in Alive' <=> x \in Alive)
    BY <1>4, <1>5, <1>9 DEF TypeInv
  <2>3. state_'[c] = CHILD => space'[c] = "live"
    BY <1>3, <1>4, <1>5 DEF TypeInv, ZOMBIE, CHILD
  <2>4. space'[c] \in {"live", "unloaded"} /\ c \in Alive'
    BY <1>3, <1>4, <1>5, <1>9 DEF TypeInv
  <2> QED BY <2>1, <2>2, <2>3, <2>4 DEF LifeInv, SpaceInv
<1>17. NoticedInv'
  <2>1. ~ (state_'[c] = ZOMBIE /\ space'[c] = "live")
    BY <1>3, <1>4, <1>5 DEF TypeInv, ZOMBIE, CHILD
  <2>2. ASSUME NEW z \in Alive
        PROVE  state_'[z] = state_[z] /\ space'[z] = space[z] /\ pparent'[z] = pparent[z]
    BY <1>4, <1>5 DEF TypeInv
  <2> QED BY <1>5, <1>9, <2>1, <2>2 DEF LifeInv, NoticedInv, NoticedBy
<1> QED BY <1>6, <1>10, <1>11, <1>13, <1>14, <1>15, <1>16, <1>17 DEF LifeInv

(* destroy_process takes the zombie off the list: the links that led to it *)
(* lead to the next one, and so does the reaper's own pointer.             *)
LEMMA DestroyLife ==
    ASSUME LifeInv, OneWaiter, NEW q \in Pids, Destroy(q)
    PROVE  LifeInv'
<1> DEFINE z == p[q]
<1>1. /\ TypeInv /\ q = pcurrent /\ pc[q] = "destroy"
      /\ q \in Waiters /\ state_[q] = CHILD
      /\ z \in Alive /\ Reapable(z) /\ Below(pn[q], z, Alive)
  BY DEF LifeInv, WalkInv, Destroy, At
<1>2. /\ MaxPid \in Nat
      /\ \A y \in Alive : y \in 1 .. MaxPid
      /\ z \in 1 .. MaxPid /\ z \in Pids /\ z # q /\ z # KERNEL
      /\ z \in Born /\ z \notin deleted
  <2>1. z \in Alive
    BY <1>1
  <2>2. /\ MaxPid \in Nat
        /\ \A y \in Alive : y \in 1 .. MaxPid
    BY AliveArePids DEF LifeInv
  <2>3. z # q /\ z # KERNEL
    BY <1>1 DEF Reapable, ZOMBIE, CHILD
  <2> QED BY <2>1, <2>2, <2>3 DEF Alive, Born
<1>3. /\ space' = [space EXCEPT ![z] = Freed(space[z])]
      /\ Unlink(z)
      /\ pc' = [pc EXCEPT ![q] = "delete"]
      /\ UNCHANGED <<pparent, state_, sigchld, pcurrent, p, pn, deleted, adopted, hung>>
  BY DEF Destroy, Goto
<1>4. OnList = Alive
  BY OnListIsAlive DEF LifeInv
<1> HIDE DEF z
<1>5. /\ pnext[z] \in Alive \cup {NULL} /\ pnext[z] \in 0 .. MaxPid /\ pnext[z] < z
      /\ \A y \in Alive : y < z => y <= pnext[z]
  BY <1>1, LinkIsBelow DEF LifeInv
<1>6. \A w \in Pids \ {q} : pc'[w] = pc[w] /\ pc[w] \in {"user", "spin"}
  BY <1>1, <1>3 DEF LifeInv, WalkInv, OneWaiter, TypeInv
<1>7. pc'[q] = "delete"
  BY <1>1, <1>3 DEF TypeInv
<1>8. Born' = Born
  BY <1>3 DEF Born
<1>9. Alive' = Alive \ {z}
  <2>1. Destroying = {}
    BY <1>1, <1>6 DEF Destroying
  <2>2. Destroying' = {z}
    <3>1. {r \in Pids : pc'[r] = "delete"} = {q}
      BY <1>6, <1>7
    <3> QED BY <1>3, <3>1 DEF Destroying, z
  <2> QED BY <1>3, <1>8, <2>1, <2>2 DEF Alive
<1>10. TypeInv'
  <2>1. Freed(space[z]) \in Space
    BY <1>1, <1>2 DEF Freed, TypeInv, Space
  <2>2. plist' \in Ptr /\ pnext' \in [Pids -> Ptr]
    <3>1. pnext[z] \in Ptr
      BY <1>2, <1>1 DEF TypeInv
    <3>2. \A l \in Pids : pnext[IF l \in {x \in OnList : pnext[x] = z} THEN z ELSE l] \in Ptr
      BY <1>1, <1>2 DEF TypeInv
    <3> QED BY <1>1, <1>3, <3>1, <3>2 DEF Unlink, TypeInv
  <2>3. pc' \in [Pids -> Label]
    BY <1>1, <1>3 DEF TypeInv, Label
  <2> QED BY <1>1, <1>3, <2>1, <2>2, <2>3 DEF TypeInv
<1>11. BornInv'
  BY <1>3, <1>8 DEF LifeInv, BornInv
<1>12. ASSUME NEW n, NEW x \in 1 .. MaxPid + 1, Below(n, x, Alive)
       PROVE  Below(IF n = z THEN pnext[z] ELSE n, x, Alive \ {z})
  <2>1. CASE n = z
    <3>1. pnext[z] \in (Alive \ {z}) \cup {NULL} /\ pnext[z] < x
      BY <1>2, <1>5, <1>12, <2>1 DEF Below
    <3>2. ASSUME NEW y \in Alive \ {z}, y < x PROVE y <= pnext[z]
      <4>1. y <= z /\ y # z /\ y \in 1 .. MaxPid
        BY <1>2, <1>12, <2>1, <3>2 DEF Below
      <4>2. y < z
        BY <1>2, <4>1
      <4> QED BY <1>5, <4>2
    <3> QED BY <2>1, <3>1, <3>2 DEF Below
  <2>2. CASE n # z
    BY <1>12, <2>2 DEF Below
  <2> QED BY <2>1, <2>2
<1>13. ChainInv'
  <2>1. CASE plist = z
    <3>1. plist' = pnext[z] /\ pnext' = pnext
      BY <1>3, <2>1 DEF Unlink
    <3>2. Below(plist', MaxPid + 1, Alive \ {z})
      <4>1. Below(plist, MaxPid + 1, Alive)
        BY DEF LifeInv, ChainInv
      <4>2. MaxPid + 1 \in 1 .. MaxPid + 1
        BY <1>2
      <4> QED BY <1>12, <2>1, <3>1, <4>1, <4>2
    <3>3. ASSUME NEW x \in Alive \ {z} PROVE Below(pnext'[x], x, Alive \ {z})
      <4>1. Below(pnext[x], x, Alive) /\ x \in 1 .. MaxPid
        BY <1>2 DEF LifeInv, ChainInv
      <4>2. x <= z
        BY <1>2, <2>1, <4>1 DEF LifeInv, ChainInv, Below
      <4>3. pnext[x] # z
        BY <1>2, <4>1, <4>2 DEF Below
      <4> QED BY <3>1, <4>1, <4>3 DEF Below
    <3> QED BY <1>9, <3>2, <3>3 DEF ChainInv
  <2>2. CASE plist # z
    <3>1. /\ plist' = plist
          /\ pnext' = [l \in Pids |-> pnext[IF l \in {x \in Alive : pnext[x] = z} THEN z ELSE l]]
      BY <1>3, <1>4, <2>2 DEF Unlink
    <3>2. Below(plist', MaxPid + 1, Alive \ {z})
      BY <2>2, <3>1 DEF LifeInv, ChainInv, Below
    <3>3. ASSUME NEW x \in Alive \ {z} PROVE Below(pnext'[x], x, Alive \ {z})
      <4>1. Below(pnext[x], x, Alive) /\ x \in 1 .. MaxPid + 1 /\ x \in Pids
        BY <1>2 DEF LifeInv, ChainInv, Alive, Born
      <4>2. pnext'[x] = IF pnext[x] = z THEN pnext[z] ELSE pnext[x]
        BY <3>1, <4>1
      <4> QED BY <1>12, <4>1, <4>2
    <3> QED BY <1>9, <3>2, <3>3 DEF ChainInv
  <2> QED BY <2>1, <2>2
<1>14. WalkInv'
  <2>1. p'[q] = z
    BY <1>3 DEF z
  <2>2. Reapable(z) /\ Below(pn[q], z, Alive \ {z})
    <3>1. pn[q] # z
      BY <1>1, <1>2 DEF Below
    <3> QED BY <1>1, <3>1 DEF Below
  <2>3. z \in Born' \ deleted'
    BY <1>2, <1>3, <1>8
  <2>4. Reapable(p[q])' /\ Below(pn[q], p[q], Alive)'
    BY <1>3, <1>9, <2>1, <2>2 DEF Reapable
  <2> QED BY <1>1, <1>3, <1>6, <1>7, <2>1, <2>3, <2>4 DEF WalkInv
<1>15. ParentInv'
  BY <1>3, <1>8 DEF LifeInv, ParentInv
<1>16. CurrentInv'
  BY <1>1, <1>2, <1>3, <1>9 DEF LifeInv, CurrentInv
<1>17. SpaceInv'
  <2>1. ASSUME NEW x \in Pids \ {z}
        PROVE  space'[x] = space[x] /\ (x \in Alive' <=> x \in Alive)
    BY <1>1, <1>3, <1>9 DEF TypeInv
  <2>2. z \notin Alive' /\ state_'[z] # CHILD
    BY <1>1, <1>3, <1>9 DEF Reapable, ZOMBIE, CHILD
  <2>3. space[z] \in {"live", "unloaded"}
    BY <1>1, <1>2 DEF LifeInv, SpaceInv
  <2>4. space'[z] \in {"freed", "again"}
    BY <1>1, <1>2, <1>3, <2>3 DEF TypeInv, Freed
  <2> QED BY <1>3, <2>1, <2>2, <2>4 DEF LifeInv, SpaceInv
<1>18. NoticedInv'
  <2>1. ASSUME NEW y \in Alive \ {z}, NEW w \in Waiters, NoticedBy(w, y)
        PROVE  NoticedBy(w, y)'
    <3>1. w = q
      BY <1>1 DEF OneWaiter
    <3>2. CASE w \in sigchld
      BY <1>3, <3>2 DEF NoticedBy
    <3>3. CASE w \notin sigchld
      <4>1. y <= z
        BY <1>1, <2>1, <3>1, <3>3 DEF NoticedBy, z
      <4>2. y < z
        BY <1>2, <4>1
      <4>3. y <= pn[q]
        BY <1>1, <4>2 DEF Below
      <4> QED BY <1>3, <1>7, <3>1, <4>3 DEF NoticedBy
    <3> QED BY <3>2, <3>3
  <2>2. ASSUME NEW y \in Alive \ {z} PROVE space'[y] = space[y]
    BY <1>1, <1>3 DEF TypeInv
  <2>3. ASSUME NEW y \in Alive \ (adopted \cup {KERNEL, z}), state_[y] = ZOMBIE,
               space[y] = "live", pparent[y] \in Waiters
        PROVE  NoticedBy(pparent[y], y)'
    BY <1>3, <2>1, <2>3 DEF LifeInv, NoticedInv
  <2> QED BY <1>3, <1>9, <2>2, <2>3 DEF NoticedInv
<1> QED BY <1>10, <1>11, <1>13, <1>14, <1>15, <1>16, <1>17, <1>18 DEF LifeInv

(* The destructor of Process: the children go to their parent's parent,    *)
(* which is older and so not deleted.                                      *)
LEMMA DeleteLife ==
    ASSUME LifeInv, OneWaiter, NEW q \in Pids, Delete(q)
    PROVE  LifeInv'
<1> DEFINE z == p[q]
<1>1. /\ TypeInv /\ q = pcurrent /\ pc[q] = "delete"
      /\ q \in Waiters /\ state_[q] = CHILD
      /\ z \in Born \ deleted /\ Reapable(z) /\ Below(pn[q], z, Alive)
  BY DEF LifeInv, WalkInv, Delete, At
<1>2. OnList = Alive
  BY OnListIsAlive DEF LifeInv
<1>3. /\ pparent' = [x \in Pids |-> IF x \in Alive /\ pparent[x] = z THEN pparent[z]
                                                                   ELSE pparent[x]]
      /\ adopted' = adopted \cup {x \in Alive : pparent[x] = z}
      /\ deleted' = deleted \cup {z}
      /\ p' = [p EXCEPT ![q] = pn[q]]
      /\ pc' = [pc EXCEPT ![q] = "test"]
      /\ UNCHANGED <<plist, pnext, state_, sigchld, pcurrent, pn, space, hung>>
  BY <1>2 DEF Delete, Goto, NewParents
<1>4. Destroying = {z}
  <2>1. {r \in Pids : pc[r] = "delete"} = {q}
    BY <1>1 DEF LifeInv, WalkInv, OneWaiter
  <2> QED BY <2>1 DEF Destroying
<1> HIDE DEF z
<1>5. \A w \in Pids \ {q} : pc'[w] = pc[w] /\ pc[w] \in {"user", "spin"}
  BY <1>1, <1>3 DEF LifeInv, WalkInv, OneWaiter, TypeInv
<1>6. pc'[q] = "test" /\ p'[q] = pn[q]
  BY <1>1, <1>3 DEF TypeInv
<1>7. Destroying' = {}
  BY <1>5, <1>6 DEF Destroying
<1>8. Born' = Born /\ Alive' = Alive
  BY <1>3, <1>4, <1>7 DEF Born, Alive
<1>9. z \in Pids /\ z \notin Alive /\ Alive \subseteq Pids
  BY <1>1, <1>4 DEF Born, Alive
<1>10. TypeInv'
  <2>1. pparent' \in [Pids -> Ptr] /\ p' \in [Pids -> Ptr] /\ pc' \in [Pids -> Label]
    BY <1>1, <1>3, <1>9 DEF TypeInv, Label
  <2> QED BY <1>1, <1>3, <1>9, <2>1 DEF TypeInv
<1>11. BornInv' /\ ChainInv'
  BY <1>1, <1>3, <1>8 DEF LifeInv, BornInv, ChainInv
<1>12. WalkInv'
  BY <1>1, <1>3, <1>5, <1>6, <1>8 DEF WalkInv, Below
<1>13. ParentInv'
  <2>1. ASSUME NEW x \in Born' \ deleted'
        PROVE  pparent'[x] < x /\ pparent'[x] \notin deleted'
    <3>1. x \in Alive /\ x \in Pids /\ x \in Born \ deleted
      BY <1>3, <1>4, <1>8, <2>1 DEF Alive, Born
    <3>2. pparent[x] < x /\ pparent[x] \notin deleted
      BY <3>1 DEF LifeInv, ParentInv
    <3>3. pparent[z] < z /\ pparent[z] \notin deleted /\ pparent[z] # z
      BY <1>1, <1>9 DEF LifeInv, ParentInv, TypeInv, Pids, Ptr
    <3>4. CASE pparent[x] = z
      <4>1. pparent'[x] = pparent[z]
        BY <1>3, <3>1, <3>4
      <4>2. pparent[z] < x
        BY <1>9, <3>1, <3>2, <3>3, <3>4, <1>1 DEF TypeInv, Ptr, Pids, KERNEL, NULL
      <4> QED BY <1>3, <3>3, <4>1, <4>2
    <3>5. CASE pparent[x] # z
      BY <1>3, <3>1, <3>2, <3>5
    <3> QED BY <3>4, <3>5
  <2> QED BY <2>1 DEF ParentInv
<1>14. CurrentInv' /\ SpaceInv'
  BY <1>1, <1>3, <1>8 DEF LifeInv, CurrentInv, SpaceInv
<1>15. NoticedInv'
  <2>1. ASSUME NEW y \in Alive \ {KERNEL}, NEW w \in Waiters, NoticedBy(w, y)
        PROVE  NoticedBy(w, y)'
    <3>1. w = q
      BY <1>1 DEF OneWaiter
    <3>2. w \in sigchld \/ y <= pn[q]
      BY <1>1, <2>1, <3>1 DEF NoticedBy
    <3> QED BY <1>3, <1>6, <3>1, <3>2 DEF NoticedBy
  <2>2. ASSUME NEW y \in Alive \ (adopted' \cup {KERNEL})
        PROVE  pparent'[y] = pparent[y] /\ y \notin adopted
    BY <1>3, <1>9
  <2>3. ASSUME NEW y \in Alive \ (adopted' \cup {KERNEL}), state_[y] = ZOMBIE,
               space[y] = "live", pparent[y] \in Waiters
        PROVE  NoticedBy(pparent[y], y)'
    <3>1. NoticedBy(pparent[y], y)
      BY <2>2, <2>3 DEF LifeInv, NoticedInv
    <3> QED BY <2>1, <2>2, <2>3, <3>1 DEF NoticedBy
  <2> QED BY <1>3, <1>8, <2>2, <2>3 DEF NoticedInv, NoticedBy
<1> QED BY <1>10, <1>11, <1>12, <1>13, <1>14, <1>15 DEF LifeInv

(* The steps of wait up to the walk, and of the walk that destroy nothing. *)
LEMMA WalkStepLife ==
    ASSUME LifeInv, OneWaiter, NEW q \in Pids,
           \/ Wait(q) \/ WaitSignalled(q) \/ WaitClear(q)
           \/ ReapTest(q) \/ ReapDone(q)
    PROVE  LifeInv'
<1> USE DEF Goto, At
<1>1. TypeInv /\ MaxPid \in Nat /\ \A y \in Alive : y \in 1 .. MaxPid
  BY AliveArePids DEF LifeInv
<1>2. /\ p \in [Pids -> Ptr] /\ pn \in [Pids -> Ptr] /\ pc \in [Pids -> Label]
      /\ {"user", "spin", "wait", "clear", "test", "destroy"} \subseteq Label
      /\ \A x \in Alive : x \in Ptr /\ x \in Pids
      /\ NULL \in Ptr
  BY <1>1 DEF TypeInv, Label, Ptr, Pids, NULL, KERNEL
<1>3. /\ q = pcurrent /\ pc[q] \notin {"spin", "delete"}
      /\ q \in Waiters
      /\ pc[q] \notin {"user", "spin"} => state_[q] = CHILD
  BY DEF LifeInv, WalkInv, Wait, WaitSignalled, WaitClear, ReapTest, ReapDone
<1>4. CASE Wait(q)
  <2>1. state_[q] = CHILD
    BY <1>3, <1>4 DEF Wait, LifeInv, CurrentInv
  <2> QED BY <1>2, <1>3, <1>4, <2>1, WalkingLife DEF Wait, NoticedBy
<1>5. CASE WaitSignalled(q)
  BY <1>2, <1>3, <1>5, WalkingLife DEF WaitSignalled, NoticedBy
<1>6. CASE WaitClear(q)
  <2>1. plist \in Alive \cup {NULL} /\ \A y \in Alive : y <= plist
    BY <1>1 DEF LifeInv, ChainInv, Below
  <2>2. p'[q] = plist /\ pc'[q] = "test"
    BY <1>2, <1>6 DEF WaitClear
  <2> QED BY <1>1, <1>2, <1>3, <1>6, <2>1, <2>2, WalkingLife DEF WaitClear, NoticedBy
<1>7. CASE ReapTest(q)
  <2>1. /\ p[q] \in Alive /\ p[q] # NULL
        /\ pn' = [pn EXCEPT ![q] = pnext[p[q]]] /\ pn'[q] = pnext[p[q]]
    BY <1>2, <1>3, <1>7 DEF ReapTest, LifeInv, WalkInv
  <2>2. Below(pnext[p[q]], p[q], Alive) /\ pnext[p[q]] \in Ptr
    BY <1>1, <1>2, <2>1 DEF LifeInv, ChainInv, TypeInv
  <2>3. CASE Reapable(p[q])
    <3>1. pc' = [pc EXCEPT ![q] = "destroy"] /\ p' = p
      BY <1>7, <2>3 DEF ReapTest
    <3> QED BY <1>2, <1>3, <1>7, <2>1, <2>2, <2>3, <3>1, WalkingLife DEF ReapTest, NoticedBy
  <2>4. CASE ~ Reapable(p[q])
    <3>1. pc' = pc /\ p' = [p EXCEPT ![q] = pnext[p[q]]]
      BY <1>7, <2>4 DEF ReapTest
    <3>2. pc' = [pc EXCEPT ![q] = "test"] /\ p'[q] = pnext[p[q]]
      BY <1>2, <1>7, <3>1 DEF ReapTest
    <3>3. pnext[p[q]] \in Alive \cup {NULL}
      BY <2>2 DEF Below
    <3>4. p' \in [Pids -> Ptr] /\ \A w \in Pids \ {q} : p'[w] = p[w]
      BY <1>2, <2>2, <3>1
    <3>5. pn' \in [Pids -> Ptr] /\ \A w \in Pids \ {q} : pn'[w] = pn[w]
      BY <1>2, <2>1, <2>2
    <3>6. ASSUME NEW z \in Alive \ {KERNEL}, state_[z] = ZOMBIE, NoticedBy(q, z)
          PROVE  NoticedBy(q, z)'
      <4>1. z # p[q]
        BY <2>4, <3>6 DEF Reapable
      <4>2. q \in sigchld \/ z <= p[q]
        BY <1>7, <3>6 DEF NoticedBy, ReapTest
      <4>3. z <= p[q] => z <= pnext[p[q]]
        BY <1>1, <2>1, <2>2, <4>1 DEF Below
      <4>4. pc'[q] = "test"
        BY <1>2, <3>2
      <4> QED BY <1>7, <3>2, <4>2, <4>3, <4>4 DEF NoticedBy, ReapTest
    <3> QED BY <1>2, <1>3, <1>7, <3>2, <3>3, <3>4, <3>5, <3>6, WalkingLife DEF ReapTest
  <2> QED BY <2>3, <2>4
<1>8. CASE ReapDone(q)
  <2>1. p[q] = NULL /\ pc' = [pc EXCEPT ![q] = "user"]
    BY <1>8 DEF ReapDone
  <2>2. \A z \in Alive : ~ z <= p[q]
    BY <1>1, <2>1 DEF NULL
  <2> QED BY <1>2, <1>3, <1>8, <2>1, <2>2, WalkingLife DEF ReapDone, NoticedBy
<1> QED BY <1>4, <1>5, <1>6, <1>7, <1>8

(* Every step preserves the invariant.                                     *)
LEMMA NextLife ==
    ASSUME LifeInv, OneWaiter, [Next]_vars
    PROVE  LifeInv'
<1>1. ASSUME NEW q \in Pids, At(q, "user") PROVE q = pcurrent /\ pc[q] = "user" /\ hung \in BOOLEAN
  BY <1>1 DEF At, LifeInv, TypeInv
<1>2. CASE Tick
  <2>1. /\ pcurrent' \in Alive /\ hung' \in BOOLEAN
        /\ pcurrent' = pcurrent \/ state_'[pcurrent'] # ZOMBIE
    BY <1>2, ScheduleAlive DEF Tick, LifeInv
  <2> QED BY <1>2, <2>1, QuietLife DEF Tick, LifeInv, TypeInv
<1>3. ASSUME NEW q \in Pids, Execv(q) PROVE LifeInv'
  BY <1>3, ExecvLife
<1>4. ASSUME NEW q \in Pids, Fork(q) PROVE LifeInv'
  <2>1. sigchld \subseteq sigchld' /\ sigchld' \subseteq Ptr
    BY <1>4 DEF Fork, Raise, LifeInv, TypeInv
  <2> QED BY <1>4, <2>1, QuietLife DEF Fork, LifeInv, TypeInv, CurrentInv
<1>5. ASSUME NEW q \in Pids, Exit(q) PROVE LifeInv'
  BY <1>1, <1>5, EndingLife DEF Exit, LifeInv, CurrentInv
<1>6. ASSUME NEW q \in Pids, Crash(q) PROVE LifeInv'
  <2>1. /\ pcurrent' \in Alive /\ hung' \in BOOLEAN
        /\ pcurrent' = pcurrent \/ state_'[pcurrent'] # ZOMBIE
    BY <1>6, ScheduleAlive DEF Crash, LifeInv
  <2> QED BY <1>1, <1>6, <2>1, EndingLife DEF Crash
<1>7. ASSUME NEW q \in Pids, Wait(q) \/ WaitStep(q) PROVE LifeInv'
  BY <1>7, WalkStepLife, DestroyLife, DeleteLife DEF WaitStep
<1>8. CASE UNCHANGED vars
  BY <1>8, QuietLife DEF vars, LifeInv, TypeInv, CurrentInv
<1> QED BY <1>2, <1>3, <1>4, <1>5, <1>6, <1>7, <1>8 DEF Next

-----------------------------------------------------------------------------

(* The list of processes descends, walkers are where they should be, and   *)
(* memory follows the list, whatever the interleaving, if one process at   *)
(* most ever waits.                                                        *)
THEOREM LifeIsRight == OneWaiter => (Spec => []LifeInv)
<1> SUFFICES ASSUME OneWaiter PROVE Spec => []LifeInv
  OBVIOUS
<1>1. Init => LifeInv
  BY InitLife
<1>2. LifeInv /\ [Next]_vars => LifeInv'
  BY NextLife
<1> QED BY <1>1, <1>2, PTL DEF Spec

(* The list holds exactly the processes that were created and not yet      *)
(* destroyed (execv and destroy_process against each other's walks).       *)
THEOREM ListIsCompleteAlways == OneWaiter => (Spec => []ListIsComplete)
<1>1. LifeInv => ListIsComplete
  BY OnListIsAlive DEF LifeInv, ListIsComplete, Alive
<1> QED BY <1>1, LifeIsRight, PTL

(* The process that runs, the parents that exit follows and the reaper's   *)
(* pointers are never deleted objects.                                     *)
THEOREM NoDanglingPointerAlways == OneWaiter => (Spec => []NoDanglingPointer)
<1>1. LifeInv => NoDanglingPointer
  <2> SUFFICES ASSUME LifeInv PROVE NoDanglingPointer
    OBVIOUS
  <2>1. OnList = Alive
    BY OnListIsAlive DEF LifeInv
  <2>2. NULL \notin deleted
    BY DEF LifeInv, TypeInv, NULL, Pids, KERNEL
  <2>3. \A x \in Alive \cup {NULL} : x \notin deleted
    BY <2>2 DEF Alive
  <2>4. pcurrent \in OnList /\ \A c \in OnList : pparent[c] \notin deleted
    BY <2>1 DEF LifeInv, CurrentInv, ParentInv, Alive
  <2>5. ASSUME NEW q \in Pids, pc[q] \in {"test", "destroy", "delete"}
        PROVE  /\ p[q] \notin deleted
               /\ pc[q] # "test" => pn[q] \notin deleted
    BY <2>3, <2>5 DEF LifeInv, WalkInv, Below
  <2> QED BY <2>4, <2>5 DEF NoDanglingPointer
<1> QED BY <1>1, LifeIsRight, PTL

(* A process that runs keeps its memory: destroy_process frees only that   *)
(* of zombies.                                                             *)
THEOREM RunningHasMemoryAlways == OneWaiter => (Spec => []RunningHasMemory)
<1>1. LifeInv => RunningHasMemory
  BY DEF LifeInv, SpaceInv, RunningHasMemory
<1> QED BY <1>1, LifeIsRight, PTL

(* No exit goes unnoticed: SIGCHLD is pending for the parent, or its wait  *)
(* has the zombie ahead of it.                                             *)
THEOREM ExitIsNoticedAlways == OneWaiter => (Spec => []ExitIsNoticed)
<1>1. LifeInv => ExitIsNoticed
  <2> SUFFICES ASSUME LifeInv,
                      NEW z \in OnList \ (adopted \cup {KERNEL}),
                      state_[z] = ZOMBIE, space[z] = "live", pparent[z] \in Waiters
               PROVE  \/ pparent[z] \in sigchld
                      \/ pc[pparent[z]] = "clear"
                      \/ pc[pparent[z]] \in {"test", "destroy"} /\ z \in From(p[pparent[z]])
                      \/ pc[pparent[z]] = "delete" /\ z \in From(pn[pparent[z]])
    BY DEF ExitIsNoticed
  <2> DEFINE w == pparent[z]
  <2>1. z \in Alive
    BY OnListIsAlive DEF LifeInv
  <2>2. w \in Pids
    BY WaitersArePids
  <2>3. NoticedBy(w, z)
    BY <2>1 DEF LifeInv, NoticedInv
  <2>4. ASSUME NEW x \in Alive \cup {NULL}, z <= x PROVE z \in From(x)
    BY <2>1, <2>4, FromIsBelow DEF LifeInv
  <2>5. pc[w] \in {"test", "destroy"} => p[w] \in Alive \cup {NULL}
    BY <2>2 DEF LifeInv, WalkInv
  <2>6. pc[w] = "delete" => pn[w] \in Alive \cup {NULL}
    BY <2>2 DEF LifeInv, WalkInv, Below
  <2> QED BY <2>3, <2>4, <2>5, <2>6 DEF NoticedBy
<1> QED BY <1>1, LifeIsRight, PTL

(* The memory of a program that was loaded is freed once.                  *)
THEOREM LoadedFreedOnceAlways == OneWaiter => (Spec => []LoadedFreedOnce)
<1>1. LifeInv => LoadedFreedOnce
  BY DEF LifeInv, SpaceInv, LoadedFreedOnce
<1> QED BY <1>1, LifeIsRight, PTL
=============================================================================

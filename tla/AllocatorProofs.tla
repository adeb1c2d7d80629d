-------------------------- MODULE AllocatorProofs --------------------------
(***************************************************************************)
(* The two searches for memory.  First the loop over the bitmap finds the  *)
(* lowest free frames; then malloc and free keep the heap's list whole.    *)
(***************************************************************************)
EXTENDS FrameScan, Heap, FiniteSetTheorems, WellFoundedInduction, TLAPS

(***************************************************************************)
(* The search for frames.  It may skip the whole byte of frame k only      *)
(* because k is the byte's first frame: further on in the byte, an earlier *)
(* frame has shown it is not full.                                         *)
(***************************************************************************)
Aligned == k % ByteFrames = 0 \/ (k < NFrames => ~ClusterFull(k))

ScanInv ==
  /\ ScanTypeOK
  /\ First <= k
  /\ result = None => /\ Aligned
                      /\ \A f \in First .. k - 1 : ~FreeRun(f)
  /\ LowestFound

\* A frame of a full byte is the start of no run.
LEMMA SkipLemma ==
  ASSUME ScanInv, Running, ClusterFull(k), NEW f \in k .. k + 7
  PROVE  ~FreeRun(f)
<1>1. k \in Nat /\ k < NFrames /\ Aligned /\ k % 8 = 0
  BY DEF ScanInv, Running, ScanTypeOK, Aligned, ByteFrames
<1>2. f \in Nat /\ f \div 8 = k \div 8
  BY <1>1
<1>3. CASE f \in Frames
  <2>1. f \in pmem_used
    BY <1>2, <1>3 DEF ClusterFull, ByteFrames
  <2>2. f \in f .. f + Need - 1
    BY <1>2, ScanAssumption
  <2> QED
    BY <1>3, <2>1, <2>2 DEF FreeRun, ReadsFree
<1>4. CASE f \notin Frames
  BY <1>2, <1>4, ScanAssumption DEF Frames, FreeRun, InBitmap
<1> QED
  BY <1>3, <1>4

LEMMA ScanStarts == ScanInit => ScanInv
<1> SUFFICES ASSUME ScanInit PROVE ScanInv
  OBVIOUS
<1>1. k = First /\ result = -1 /\ First \in Nat /\ First % 8 = 0
  BY ScanAssumption DEF ScanInit, None, ByteFrames
<1>2. pmem_used \subseteq Frames
  <2>1. PICK S \in SUBSET (First .. NFrames - 1) : pmem_used = S \cup 0 .. First - 1
    BY DEF ScanInit
  <2>2. First .. NFrames - 1 \subseteq Frames /\ 0 .. First - 1 \subseteq Frames
    BY ScanAssumption DEF Frames
  <2> QED
    BY <2>1, <2>2
<1>3. ScanTypeOK /\ LowestFound
  BY <1>1, <1>2 DEF ScanTypeOK, LowestFound, None
<1> QED
  BY <1>1, <1>3 DEF ScanInv, Aligned, ByteFrames

LEMMA ScanGoesOn == ScanInv /\ [ScanNext]_scanVars => ScanInv'
<1> SUFFICES ASSUME ScanInv, [ScanNext]_scanVars PROVE ScanInv'
  OBVIOUS
<1>0. NFrames \in Nat /\ First \in Nat /\ First > 0 /\ k \in Nat
  BY ScanAssumption DEF ScanInv, ScanTypeOK
<1>1. CASE SkipCluster
  <2>1. k' = k + 8 /\ UNCHANGED <<pmem_used, result>> /\ Running /\ ClusterFull(k)
    BY <1>1 DEF SkipCluster, ByteFrames
  <2>2. k % 8 = 0
    BY <2>1 DEF ScanInv, Running, Aligned, ByteFrames
  <2>3. k' % 8 = 0 /\ k' \in Nat
    BY <1>0, <2>1, <2>2
  <2>4. \A f \in First .. k' - 1 : ~FreeRun(f)
    <3> TAKE f \in First .. k' - 1
    <3>1. CASE f \in First .. k - 1
      BY <3>1, <2>1 DEF ScanInv, Running
    <3>2. CASE f \in k .. k + 7
      BY <3>2, <2>1, SkipLemma
    <3> QED
      BY <1>0, <2>1, <3>1, <3>2
  <2> QED
    BY <1>0, <2>1, <2>3, <2>4
    DEF ScanInv, ScanTypeOK, Aligned, LowestFound, FreeRun, InBitmap, ReadsFree, ByteFrames, Frames
<1>2. CASE Found
  <2>1. /\ result' = k /\ UNCHANGED <<pmem_used, k>> /\ ReadsFree(k)
        /\ result = None /\ k < NFrames
    BY <1>2 DEF Found, Running
  <2>2. \A f \in First .. k - 1 : ~FreeRun(f)
    BY <2>1 DEF ScanInv
  <2>3. ScanTypeOK'
    BY <1>0, <2>1 DEF ScanInv, ScanTypeOK
  <2>4. LowestFound'
    BY <1>0, <2>1, <2>2 DEF LowestFound, FreeRun, InBitmap, ReadsFree, ScanInv
  <2> QED
    BY <1>0, <2>1, <2>3, <2>4 DEF ScanInv, None
<1>3. CASE NextFrame
  <2>1. /\ k' = k + 1 /\ UNCHANGED <<pmem_used, result>>
        /\ result = None /\ k < NFrames /\ ~ClusterFull(k) /\ ~FreeRun(k)
    BY <1>3 DEF NextFrame, Running, FreeRun
  <2>2. Aligned'
    <3>1. PICK g \in Frames : g \div 8 = k \div 8 /\ g \notin pmem_used
      BY <2>1 DEF ClusterFull, ByteFrames
    <3>2. CASE k' % 8 = 0
      BY <3>2 DEF Aligned, ByteFrames
    <3>3. CASE k' % 8 # 0
      <4>1. k' \div 8 = k \div 8
        BY <1>0, <2>1, <3>3
      <4>2. g \div 8 = k' \div 8 /\ g \notin pmem_used'
        BY <2>1, <3>1, <4>1
      <4> QED
        BY <4>2 DEF Aligned, ClusterFull, ByteFrames, Frames
    <3> QED
      BY <3>2, <3>3
  <2>3. \A f \in First .. k' - 1 : ~FreeRun(f)
    BY <1>0, <2>1 DEF ScanInv
  <2> QED
    BY <1>0, <2>1, <2>2, <2>3
    DEF ScanInv, ScanTypeOK, LowestFound, FreeRun, InBitmap, ReadsFree, Frames
<1>4. CASE NotFound
  <2>1. result = None /\ k >= NFrames /\ result' = 0 /\ UNCHANGED <<pmem_used, k>>
    BY <1>4 DEF NotFound
  <2>2. \A f \in First .. NFrames - 1 : ~FreeRun(f)
    BY <1>0, <2>1 DEF ScanInv
  <2>3. ScanTypeOK'
    BY <2>1 DEF ScanInv, ScanTypeOK
  <2>4. LowestFound'
    BY <2>1, <2>2 DEF LowestFound, FreeRun, InBitmap, ReadsFree
  <2> QED
    BY <2>1, <2>3, <2>4 DEF ScanInv, None
<1>5. CASE UNCHANGED scanVars
  BY <1>5 DEF scanVars, ScanInv, ScanTypeOK, Aligned, LowestFound, FreeRun, InBitmap, ReadsFree,
              ClusterFull
<1> QED
  BY <1>1, <1>2, <1>3, <1>4, <1>5 DEF ScanNext

\* find_free_phys_page and the search of alloc_sequential return the lowest
\* free frames of every bitmap, and fail only when there are none.
THEOREM SearchCorrect == ScanSpec => []SearchSound
<1>1. ScanInv => SearchSound
  BY DEF ScanInv, SearchSound
<1> QED
  BY <1>1, ScanStarts, ScanGoesOn, PTL DEF ScanSpec

(***************************************************************************)
(* The heap's list.  List is a recursive function of the headers; it is    *)
(* the least set of places with the first header that no next leaves.      *)
(***************************************************************************)
Headers == [Places -> [size : Nat, used : BOOLEAN, next : Places \cup {NULL},
                       prev : Places \cup {NULL}]]

\* List, of any headers.
ListOf(m) ==
  LET Reach[n \in 0 .. MaxPlace + 1] ==
        IF n = 0 THEN {0}
        ELSE Reach[n - 1] \cup ({m[p].next : p \in Reach[n - 1]} \ {NULL})
  IN  Reach[MaxPlace + 1]

\* A turn of it.
Follow(m, S) == S \cup ({m[p].next : p \in S} \ {NULL})

\* f is what Reach is, as far as n.
IsReach(m, f, n) == f = [i \in 0 .. n |-> IF i = 0 THEN {0} ELSE Follow(m, f[i - 1])]

\* Numbers below a bound have a lowest: the intervals 0 .. i are finite, and
\* strict inclusion among them is well founded.
LEMMA LowestOf ==
  ASSUME NEW n \in Nat, NEW S \in SUBSET (0 .. n), S # {}
  PROVE  \E i \in S : \A j \in S : i <= j
<1> DEFINE U == 0 .. n
           T == {0 .. i : i \in S}
           R == StrictSubsetOrdering(U)
<1>1. IsFiniteSet(U)
  BY FS_Interval
<1>2. IsWellFoundedOn(R, SUBSET U)
  <2> HIDE DEF U
  <2> QED
    BY <1>1, FS_FiniteSubsetsOfFinite, FS_StrictSubsetOrderingWellFounded, Zenon
<1>3. T \subseteq SUBSET U /\ T # {}
  <2> SUFFICES ASSUME NEW i \in S PROVE 0 .. i \subseteq U
    OBVIOUS
  <2> QED
    OBVIOUS
<1>4. PICK t \in T : \A u \in T : <<u, t>> \notin R
  <2> HIDE DEF T, R, U
  <2> QED
    BY <1>2, <1>3, WFMin
<1>5. PICK i \in S : t = 0 .. i
  OBVIOUS
<1>6. ASSUME NEW j \in S, ~ (i <= j)
      PROVE  FALSE
  <2>1. j \in Nat /\ i \in Nat /\ j < i
    BY <1>6
  <2>2. 0 .. j \subseteq 0 .. i /\ i \in 0 .. i /\ i \notin 0 .. j
    BY <2>1
  <2>3. 0 .. j \in T /\ 0 .. j \in SUBSET U /\ 0 .. i \in SUBSET U
    <3>1. 0 .. j \in T /\ 0 .. i \in T
      OBVIOUS
    <3> HIDE DEF T
    <3> QED
      BY <1>3, <3>1
  <2>4. <<0 .. j, 0 .. i>> \in R
    BY <2>2, <2>3 DEF StrictSubsetOrdering
  <2> QED
    BY <1>4, <1>5, <2>3, <2>4
<1> QED
  BY <1>6

LEMMA Measures == MaxPlace \in Nat \ {0} /\ Places = 0 .. MaxPlace + 1 /\ NULL = -1 /\ NULL \notin Places
BY HeapAssumption DEF Places, NULL

\* The recursive function of List exists: one as far as n - 1 goes on to n.
LEMMA ReachExists ==
  ASSUME NEW m
  PROVE  \E f : IsReach(m, f, MaxPlace + 1)
<1> DEFINE Wrong == {n \in 0 .. MaxPlace + 1 : \A f : ~IsReach(m, f, n)}
<1> SUFFICES ASSUME Wrong # {} PROVE FALSE
  BY Measures
<1>1. PICK n \in Wrong : \A w \in Wrong : n <= w
  <2>1. Wrong \in SUBSET (0 .. MaxPlace + 1) /\ MaxPlace + 1 \in Nat
    BY Measures
  <2> HIDE DEF Wrong
  <2> QED
    BY <2>1, LowestOf
<1>2. n \in 0 .. MaxPlace + 1 /\ n \in Nat /\ \A f : ~IsReach(m, f, n)
  BY Measures
<1> DEFINE zero == [i \in 0 .. 0 |-> {0}]
<1>3. IsReach(m, zero, 0)
  <2>1. \A i \in 0 .. 0 : i = 0
    OBVIOUS
  <2> QED
    BY <2>1 DEF IsReach
<1>4. n # 0
  BY <1>2, <1>3
<1>5. n - 1 \in 0 .. MaxPlace + 1 /\ ~(n <= n - 1)
  BY <1>2, <1>4, Measures
<1>6. PICK f : IsReach(m, f, n - 1)
  BY <1>1, <1>5
<1> DEFINE g == [i \in 0 .. n |-> IF i = n THEN Follow(m, f[n - 1]) ELSE f[i]]
<1>7. \A i \in 0 .. n - 1 : g[i] = f[i]
  BY <1>2
<1>8. ASSUME NEW i \in 0 .. n
      PROVE  g[i] = IF i = 0 THEN {0} ELSE Follow(m, g[i - 1])
  <2>1. CASE i = n
    <3>1. n - 1 \in 0 .. n - 1 /\ n \in 0 .. n
      BY <1>2, <1>4
    <3>2. g[n] = Follow(m, f[n - 1])
      BY <3>1
    <3> QED
      BY <1>4, <1>7, <2>1, <3>1, <3>2
  <2>2. CASE i # n
    <3>1. i \in 0 .. n - 1 /\ (i # 0 => i - 1 \in 0 .. n - 1)
      BY <1>2, <2>2
    <3>2. f[i] = IF i = 0 THEN {0} ELSE Follow(m, f[i - 1])
      BY <1>6, <3>1 DEF IsReach
    <3> HIDE DEF g
    <3> QED
      BY <1>7, <3>1, <3>2
  <2> QED
    BY <2>1, <2>2
<1>9. IsReach(m, g, n)
  <2>1. g = [i \in 0 .. n |-> g[i]]
    OBVIOUS
  <2> HIDE DEF g
  <2>2. [i \in 0 .. n |-> g[i]] = [i \in 0 .. n |-> IF i = 0 THEN {0} ELSE Follow(m, g[i - 1])]
    BY <1>8
  <2> QED
    BY <2>1, <2>2 DEF IsReach
<1> QED
  BY <1>2, <1>9

LEMMA ListReached ==
  ASSUME NEW m
  PROVE  \E f : /\ ListOf(m) = f[MaxPlace + 1]
                /\ f[0] = {0}
                /\ \A i \in 0 .. MaxPlace : f[i + 1] = Follow(m, f[i])
<1> DEFINE Step(f) == [n \in 0 .. MaxPlace + 1 |->
              IF n = 0 THEN {0}
              ELSE f[n - 1] \cup ({m[p].next : p \in f[n - 1]} \ {NULL})]
           Reach == CHOOSE f : f = Step(f)
<1>1. ListOf(m) = Reach[MaxPlace + 1]
  BY DEF ListOf
<1>2. \A f : IsReach(m, f, MaxPlace + 1) <=> f = Step(f)
  BY DEF IsReach, Follow
<1>3. Reach = Step(Reach)
  <2>1. \E f : f = Step(f)
    BY <1>2, ReachExists
  <2> HIDE DEF Step
  <2> QED
    BY <2>1
<1> HIDE DEF Reach
<1>4. Reach[0] = {0}
  <2>1. 0 \in 0 .. MaxPlace + 1
    BY Measures
  <2> QED
    BY <1>3, <2>1
<1>5. ASSUME NEW i \in 0 .. MaxPlace PROVE Reach[i + 1] = Follow(m, Reach[i])
  <2>1. i + 1 \in 0 .. MaxPlace + 1 /\ i + 1 # 0 /\ i + 1 - 1 = i
    BY Measures
  <2>2. \A n \in 0 .. MaxPlace + 1 : n # 0 => Reach[n] = Follow(m, Reach[n - 1])
    BY <1>3 DEF Follow
  <2> QED
    BY <2>1, <2>2
<1> QED
  BY <1>1, <1>4, <1>5

\* No next leads out of the places.
Linked(m) == \A p \in Places : m[p].next \in Places \cup {NULL}

\* The list lies in every set of places that the first header's successors do not leave.
LEMMA ListLeast ==
  ASSUME NEW m, NEW S, 0 \in S, \A p \in S : m[p].next \in S \cup {NULL}
  PROVE  ListOf(m) \subseteq S
<1>1. PICK f : /\ ListOf(m) = f[MaxPlace + 1] /\ f[0] = {0}
               /\ \A i \in 0 .. MaxPlace : f[i + 1] = Follow(m, f[i])
  BY ListReached
<1> DEFINE Wrong == {i \in 0 .. MaxPlace + 1 : ~(f[i] \subseteq S)}
<1> SUFFICES ASSUME Wrong # {} PROVE FALSE
  BY <1>1, Measures
<1>2. PICK n \in Wrong : \A w \in Wrong : n <= w
  <2>1. Wrong \in SUBSET (0 .. MaxPlace + 1) /\ MaxPlace + 1 \in Nat
    BY Measures
  <2> HIDE DEF Wrong
  <2> QED
    BY <2>1, LowestOf
<1>3. n \in 0 .. MaxPlace + 1 /\ n # 0 /\ ~(f[n] \subseteq S)
  BY <1>1
<1>4. n - 1 \in 0 .. MaxPlace /\ n - 1 \in 0 .. MaxPlace + 1 /\ n - 1 + 1 = n /\ ~(n <= n - 1)
  BY <1>3, Measures
<1>5. f[n - 1] \subseteq S /\ f[n] = Follow(m, f[n - 1])
  BY <1>1, <1>2, <1>4
<1> QED
  BY <1>3, <1>5 DEF Follow

\* It is such a set itself: until it is, every turn adds a place, and there
\* are no more places than turns.
LEMMA ListClosed ==
  ASSUME NEW m, Linked(m)
  PROVE  /\ ListOf(m) \subseteq Places /\ 0 \in ListOf(m)
         /\ \A p \in ListOf(m) : m[p].next \in ListOf(m) \cup {NULL}
<1>1. PICK f : /\ ListOf(m) = f[MaxPlace + 1] /\ f[0] = {0}
               /\ \A i \in 0 .. MaxPlace : f[i + 1] = Follow(m, f[i])
  BY ListReached
<1>2. ListOf(m) \subseteq Places
  <2>1. 0 \in Places
    BY Measures
  <2> QED
    BY <2>1, ListLeast DEF Linked
<1> DEFINE Closed(S) == \A p \in S : m[p].next \in S \cup {NULL}
           Right(i) == /\ 0 \in f[i] /\ f[i] \subseteq Places
                       /\ Closed(f[i]) \/ Cardinality(f[i]) >= i + 1
           Wrong == {i \in 0 .. MaxPlace + 1 : ~Right(i)}
<1>3. IsFiniteSet(Places) /\ Cardinality(Places) = MaxPlace + 2
  BY Measures, FS_Interval
<1>4. Right(0)
  <2>1. Cardinality({0}) = 1
    BY FS_Singleton
  <2> QED
    BY <1>1, <2>1, Measures
<1>5. ASSUME NEW i \in 0 .. MaxPlace, Right(i) PROVE Right(i + 1)
  <2>1. f[i + 1] = Follow(m, f[i])
    BY <1>1
  <2>2. 0 \in f[i + 1] /\ f[i + 1] \subseteq Places /\ f[i] \subseteq f[i + 1]
    BY <1>5, <2>1 DEF Follow, Linked
  <2>3. CASE Closed(f[i])
    <3>1. f[i + 1] = f[i]
      BY <2>1, <2>3 DEF Follow
    <3> QED
      BY <2>2, <2>3, <3>1
  <2>4. CASE ~Closed(f[i])
    <3>1. PICK q \in f[i + 1] : q \notin f[i]
      BY <2>1, <2>4 DEF Follow
    <3>2. Cardinality(f[i]) >= i + 1
      BY <1>5, <2>4
    <3>3. IsFiniteSet(f[i]) /\ IsFiniteSet(f[i + 1])
      BY <1>3, <1>5, <2>2, FS_Subset
    <3>4. Cardinality(f[i] \cup {q}) = Cardinality(f[i]) + 1 /\ IsFiniteSet(f[i] \cup {q})
      BY <3>1, <3>3, FS_AddElement
    <3>5. Cardinality(f[i] \cup {q}) <= Cardinality(f[i + 1])
      <4>1. f[i] \cup {q} \in SUBSET f[i + 1]
        BY <2>2, <3>1
      <4> QED
        BY <3>3, <4>1, FS_Subset
    <3>6. Cardinality(f[i]) \in Nat /\ Cardinality(f[i + 1]) \in Nat
      BY <3>3, FS_CardinalityType
    <3>7. Cardinality(f[i + 1]) >= i + 1 + 1
      BY <3>2, <3>4, <3>5, <3>6
    <3> QED
      BY <2>2, <3>7
  <2> QED
    BY <2>3, <2>4
<1>6. Right(MaxPlace + 1)
  <2> SUFFICES ASSUME Wrong # {} PROVE FALSE
    BY Measures
  <2>1. PICK n \in Wrong : \A w \in Wrong : n <= w
    <3>1. Wrong \in SUBSET (0 .. MaxPlace + 1) /\ MaxPlace + 1 \in Nat
      BY Measures
    <3> HIDE DEF Wrong
    <3> QED
      BY <3>1, LowestOf
  <2>2. n \in 0 .. MaxPlace + 1 /\ ~Right(n)
    OBVIOUS
  <2> HIDE DEF Right
  <2>3. n # 0
    BY <1>4, <2>2
  <2>4. n - 1 \in 0 .. MaxPlace /\ n - 1 \in 0 .. MaxPlace + 1 /\ n - 1 + 1 = n /\ ~(n <= n - 1)
    BY <2>2, <2>3, Measures
  <2>5. Right(n - 1)
    BY <2>1, <2>4
  <2> QED
    BY <1>5, <2>2, <2>4, <2>5
<1>7. CASE Closed(f[MaxPlace + 1])
  BY <1>1, <1>2, <1>6, <1>7
<1>8. CASE ~Closed(f[MaxPlace + 1])
  <2>1. IsFiniteSet(f[MaxPlace + 1]) /\ Cardinality(f[MaxPlace + 1]) <= MaxPlace + 2
    BY <1>3, <1>6, FS_Subset
  <2>2. Cardinality(f[MaxPlace + 1]) >= MaxPlace + 1 + 1 /\ Cardinality(f[MaxPlace + 1]) \in Nat
    BY <1>6, <1>8, <2>1, FS_CardinalityType
  <2>3. f[MaxPlace + 1] = Places
    <3>1. Cardinality(f[MaxPlace + 1]) = Cardinality(Places)
      BY <1>3, <2>1, <2>2, Measures
    <3> QED
      BY <1>3, <1>6, <3>1, FS_Subset
  <2> QED
    BY <1>1, <1>8, <2>3 DEF Linked
<1> QED
  BY <1>7, <1>8

\* Headers count with the place they name as the next, and only those on the list.
LEMMA SameNexts ==
  ASSUME NEW m, NEW w, Linked(m), Linked(w),
         \A p \in ListOf(m) : w[p].next = m[p].next
  PROVE  ListOf(w) = ListOf(m)
<1>1. 0 \in ListOf(m) /\ \A p \in ListOf(m) : w[p].next \in ListOf(m) \cup {NULL}
  BY ListClosed
<1>2. ListOf(w) \subseteq ListOf(m)
  BY <1>1, ListLeast
<1>3. 0 \in ListOf(w) /\ \A p \in ListOf(w) : m[p].next \in ListOf(w) \cup {NULL}
  BY <1>2, ListClosed
<1>4. ListOf(m) \subseteq ListOf(w)
  BY <1>3, ListLeast
<1> QED
  BY <1>2, <1>4

\* After p the list goes on with the next of its places, and ends with the last.
Follows(m, S, p) ==
  LET n == m[p].next
  IN  IF n = NULL THEN \A q \in S : q <= p
      ELSE n \in S /\ p < n /\ \A q \in S : q <= p \/ n <= q

Chain(m, S) ==
  /\ S \subseteq Places /\ 0 \in S
  /\ \A p \in S : Follows(m, S, p)
  /\ \A q \in S \ {0} : \E p \in S : m[p].next = q

\* Places that follow one another from the first are the list.
LEMMA ChainIsList ==
  ASSUME NEW m, NEW S, Linked(m), Chain(m, S)
  PROVE  ListOf(m) = S
<1>1. ListOf(m) \subseteq S
  BY ListLeast DEF Chain, Follows
<1>2. 0 \in ListOf(m) /\ \A p \in ListOf(m) : m[p].next \in ListOf(m) \cup {NULL}
  BY ListClosed
<1> DEFINE Left == S \ ListOf(m)
<1> SUFFICES ASSUME Left # {} PROVE FALSE
  BY <1>1
<1>3. PICK q \in Left : \A w \in Left : q <= w
  <2>1. Left \in SUBSET (0 .. MaxPlace + 1) /\ MaxPlace + 1 \in Nat
    <3>1. S \subseteq 0 .. MaxPlace + 1
      BY Measures DEF Chain
    <3>2. Left \subseteq S
      OBVIOUS
    <3> HIDE DEF Left
    <3> QED
      BY <3>1, <3>2, Measures
  <2> HIDE DEF Left
  <2> QED
    BY <2>1, LowestOf
<1>4. q \in S /\ q \in Places /\ q # 0 /\ q \notin ListOf(m)
  BY <1>2 DEF Chain
<1>5. PICK p \in S : m[p].next = q
  BY <1>4 DEF Chain
<1>6. p < q /\ p \in Int /\ q \in Int
  BY <1>4, <1>5, Measures DEF Chain, Follows
<1>7. p \in ListOf(m)
  BY <1>3, <1>6
<1> QED
  BY <1>2, <1>4, <1>5, <1>7, Measures

\* No place but c's lies between c and the next.
LEMMA NextDoor ==
  ASSUME NEW m, NEW S, Chain(m, S), NEW p \in S, p + 1 \in S
  PROVE  m[p].next = p + 1
<1>1. p \in Nat /\ p + 1 # 0 /\ S \subseteq Nat
  BY Measures DEF Chain
<1>2. PICK q \in S : m[q].next = p + 1
  BY <1>1 DEF Chain
<1>3. p + 1 # NULL /\ q \in Nat
  BY <1>1, Measures
<1>4. q < p + 1 /\ (p <= q \/ p + 1 <= p)
  <2>1. Follows(m, S, q)
    BY DEF Chain
  <2> QED
    BY <1>2, <1>3, <2>1 DEF Follows
<1> QED
  BY <1>1, <1>2, <1>3, <1>4

\* A split: the new header comes right behind c.
LEMMA ChainGrows ==
  ASSUME NEW m, NEW S, Chain(m, S), NEW c \in S, c + 1 \in Places, c + 1 \notin S,
         NEW w, w[c].next = c + 1, w[c + 1].next = m[c].next,
         \A p \in S \ {c} : w[p].next = m[p].next
  PROVE  Chain(w, S \cup {c + 1})
<1> DEFINE d == c + 1
           T == S \cup {d}
<1>1. S \subseteq Nat /\ c \in Nat /\ d \in Nat /\ d # NULL /\ 0 \in S /\ S \subseteq Places
  BY Measures DEF Chain
<1>2. \A p \in S : Follows(m, S, p)
  BY DEF Chain
<1>3. \A q \in S : q <= c \/ d < q
  BY <1>1
<1>4. Follows(w, T, c)
  BY <1>1, <1>3 DEF Follows
<1>5. Follows(w, T, d)
  <2>1. CASE m[c].next = NULL
    <3>1. \A q \in S : q <= c
      BY <1>2, <2>1 DEF Follows
    <3> QED
      BY <1>1, <2>1, <3>1 DEF Follows
  <2>2. CASE m[c].next # NULL
    <3>1. m[c].next \in S /\ c < m[c].next /\ \A q \in S : q <= c \/ m[c].next <= q
      BY <1>2, <2>2 DEF Follows
    <3>2. d < m[c].next
      BY <1>1, <1>3, <3>1
    <3> QED
      BY <1>1, <2>2, <3>1, <3>2 DEF Follows
  <2> QED
    BY <2>1, <2>2
<1>6. ASSUME NEW p \in S \ {c} PROVE Follows(w, T, p)
  <2>1. w[p].next = m[p].next /\ Follows(m, S, p) /\ Follows(m, S, c) /\ p \in Nat
    BY <1>1, <1>2
  <2>2. CASE m[p].next = NULL
    <3>1. c <= p /\ c < p
      BY <1>1, <2>1, <2>2 DEF Follows
    <3> QED
      BY <1>1, <2>1, <2>2, <3>1 DEF Follows
  <2>3. CASE m[p].next # NULL
    <3>1. m[p].next \in S /\ p < m[p].next /\ \A q \in S : q <= p \/ m[p].next <= q
      BY <2>1, <2>3 DEF Follows
    <3>2. (c <= p \/ m[p].next <= c) /\ c # p /\ m[p].next \in Nat
      BY <1>1, <3>1
    <3>3. d <= p \/ m[p].next <= d
      BY <1>1, <2>1, <3>2
    <3> QED
      BY <2>1, <2>3, <3>1, <3>3 DEF Follows
  <2> QED
    BY <2>2, <2>3
<1>7. ASSUME NEW q \in T \ {0} PROVE \E p \in T : w[p].next = q
  <2>1. CASE q = d
    BY <2>1
  <2>2. CASE q # d
    <3>1. PICK p \in S : m[p].next = q
      BY <2>2 DEF Chain
    <3>2. CASE p = c
      BY <3>1, <3>2
    <3>3. CASE p # c
      BY <3>1, <3>3
    <3> QED
      BY <3>2, <3>3
  <2> QED
    BY <2>1, <2>2
<1>8. \A p \in T : Follows(w, T, p)
  <2> HIDE DEF T
  <2>1. \A p \in T : p = c \/ p = d \/ p \in S \ {c}
    BY DEF T
  <2> QED
    BY <1>4, <1>5, <1>6, <2>1
<1>9. T \subseteq Places /\ 0 \in T
  BY <1>1
<1> HIDE DEF T
<1> QED
  BY <1>7, <1>8, <1>9 DEF Chain, T

\* A merge: the header behind c leaves the list.
LEMMA ChainShrinks ==
  ASSUME NEW m, NEW S, Chain(m, S), NEW c \in S, m[c].next # NULL,
         NEW w, w[c].next = m[m[c].next].next,
         \A p \in S \ {c} : w[p].next = m[p].next
  PROVE  /\ m[c].next \in S /\ c < m[c].next
         /\ Chain(w, S \ {m[c].next})
<1> DEFINE n == m[c].next
           T == S \ {n}
<1>1. S \subseteq Nat /\ c \in Nat /\ 0 \in S /\ S \subseteq Places
  BY Measures DEF Chain
<1>2. \A p \in S : Follows(m, S, p)
  BY DEF Chain
<1>3. n \in S /\ c < n /\ n # 0 /\ n \in Nat /\ \A q \in S : q <= c \/ n <= q
  <2>1. n \in S /\ c < n /\ \A q \in S : q <= c \/ n <= q
    <3>1. Follows(m, S, c)
      BY <1>2
    <3> QED
      BY <3>1 DEF Follows
  <2> HIDE DEF n
  <2> QED
    BY <1>1, <2>1
<1>4. \A p \in S \ {c} : m[p].next # n
  <2> SUFFICES ASSUME NEW p \in S, p # c, m[p].next = n PROVE FALSE
    OBVIOUS
  <2>1. p < n /\ (c <= p \/ n <= c) /\ (p <= c \/ n <= p)
    BY <1>2, <1>3 DEF Follows
  <2> HIDE DEF n
  <2> QED
    BY <1>1, <1>3, <2>1
<1>5. Follows(w, T, c)
  <2>1. w[c].next = m[n].next /\ Follows(m, S, n)
    BY <1>2, <1>3
  <2>2. CASE m[n].next = NULL
    BY <1>1, <1>3, <2>1, <2>2 DEF Follows
  <2>3. CASE m[n].next # NULL
    <3> DEFINE r == m[n].next
    <3>1. r \in S /\ n < r /\ \A q \in S : q <= n \/ r <= q
      BY <2>1, <2>3 DEF Follows
    <3>2. w[c].next = r
      BY <2>1
    <3> HIDE DEF r, n
    <3>3. r \in T /\ c < r /\ \A q \in T : q <= c \/ r <= q
      BY <1>1, <1>3, <3>1
    <3> HIDE DEF T
    <3> QED
      BY <3>2, <3>3, <1>1, Measures DEF Follows
  <2> QED
    BY <2>2, <2>3
<1>6. ASSUME NEW p \in T \ {c} PROVE Follows(w, T, p)
  <2>1. w[p].next = m[p].next /\ Follows(m, S, p) /\ m[p].next # n
    BY <1>2, <1>4
  <2> QED
    BY <2>1 DEF Follows
<1>7. ASSUME NEW q \in T \ {0} PROVE \E p \in T : w[p].next = q
  <2>1. PICK p \in S : m[p].next = q
    BY DEF Chain
  <2>2. CASE p = n
    BY <1>1, <1>3, <2>1, <2>2
  <2>3. CASE p = c
    BY <2>1, <2>3
  <2>4. CASE p # n /\ p # c
    BY <2>1, <2>4
  <2> QED
    BY <2>2, <2>3, <2>4
<1>8. \A p \in T : Follows(w, T, p)
  BY <1>5, <1>6
<1>9. T \subseteq Places /\ 0 \in T
  BY <1>1, <1>3
<1> HIDE DEF T
<1> QED
  BY <1>3, <1>7, <1>8, <1>9 DEF Chain, T

(***************************************************************************)
(* What malloc and free keep, until a breach: headers m are a chain of the *)
(* places S up to last, which is free; the blocks b that are held and the  *)
(* headers in use belong together; a prev, right or not, is the place in   *)
(* front, so that free merges with that one or is a breach.                *)
(***************************************************************************)
Sound(m, S, last, b) ==
  /\ Chain(m, S)
  /\ last \in S /\ m[last].next = NULL /\ ~m[last].used
  /\ \A p \in S : m[p].used <=> (p + 1 \in Places /\ b[p + 1] # {})
  /\ \A q \in Places : b[q] # {} =>
       /\ q - 1 \in S
       /\ \E s \in Sizes : b[q] = {s} /\ m[q - 1].size \in s .. s + HeaderWords - 1
  /\ \A p \in Places : m[p].prev \in {NULL, p - 1}

\* malloc walks the list, whole or not, and stays on it.
Walking == pc = "malloc" => /\ size \in Sizes /\ cur_alloc \in ListOf(memory)
                            /\ \A p \in ListOf(memory) : p < MaxPlace

\* The invariant of the heap.
HeapInv ==
  /\ TypeOK /\ blocks \in [Places -> SUBSET Sizes]
  /\ Walking
  /\ breach = {} => pc # "halted" /\ Sound(memory, ListOf(memory), cur_heap.last, blocks)

LEMMA ListIs == List = ListOf(memory)
BY DEF List, ListOf

LEMMA Linking == ASSUME NEW m \in Headers PROVE Linked(m)
BY DEF Headers, Linked


\* A field of a header set, a header set, and c made one with a block behind it.
Claimed(m, c) == [m EXCEPT ![c].used = TRUE]
Freed(m, c) == [m EXCEPT ![c].used = FALSE]
Larger(m, c, words) == [m EXCEPT ![c].size = @ + words]
Onto(m, c, n) == [m EXCEPT ![c].next = n]
Put(m, c, h) == [m EXCEPT ![c] = h]
Joined(m, c, n, words) == [m EXCEPT ![c].next = n, ![c].size = @ + words]

LEMMA ClaimedSet ==
  ASSUME NEW m \in Headers, NEW c \in Places
  PROVE  /\ Claimed(m, c) \in Headers
         /\ \A p \in Places : LET w == Claimed(m, c)
                              IN  /\ w[p].next = m[p].next /\ w[p].size = m[p].size
                                  /\ w[p].prev = m[p].prev
                                  /\ w[p].used = IF p = c THEN TRUE ELSE m[p].used
BY DEF Headers, Claimed

LEMMA FreedSet ==
  ASSUME NEW m \in Headers, NEW c \in Places
  PROVE  /\ Freed(m, c) \in Headers
         /\ \A p \in Places : LET w == Freed(m, c)
                              IN  /\ w[p].next = m[p].next /\ w[p].size = m[p].size
                                  /\ w[p].prev = m[p].prev
                                  /\ w[p].used = IF p = c THEN FALSE ELSE m[p].used
BY DEF Headers, Freed

LEMMA SizeSet ==
  ASSUME NEW m \in Headers, NEW c \in Places, NEW words \in Nat
  PROVE  /\ Larger(m, c, words) \in Headers
         /\ \A p \in Places : LET w == Larger(m, c, words)
                              IN  /\ w[p].next = m[p].next /\ w[p].used = m[p].used
                                  /\ w[p].prev = m[p].prev
                                  /\ w[p].size = IF p = c THEN m[p].size + words ELSE m[p].size
BY DEF Headers, Larger

LEMMA NextSet ==
  ASSUME NEW m \in Headers, NEW c \in Places, NEW n \in Places \cup {NULL}
  PROVE  /\ Onto(m, c, n) \in Headers
         /\ \A p \in Places : LET w == Onto(m, c, n)
                              IN  /\ w[p].size = m[p].size /\ w[p].used = m[p].used
                                  /\ w[p].prev = m[p].prev
                                  /\ w[p].next = IF p = c THEN n ELSE m[p].next
BY DEF Headers, Onto

LEMMA HeaderSet ==
  ASSUME NEW m \in Headers, NEW c \in Places,
         NEW h \in [size : Nat, used : BOOLEAN, next : Places \cup {NULL},
                   prev : Places \cup {NULL}]
  PROVE  /\ Put(m, c, h) \in Headers
         /\ Put(m, c, h)[c] = h
         /\ \A q \in Places \ {c} : Put(m, c, h)[q] = m[q]
BY DEF Headers, Put

LEMMA MergeType ==
  ASSUME NEW m \in Headers, NEW c \in Places, NEW n \in Places \cup {NULL}, NEW words \in Nat
  PROVE  /\ Joined(m, c, n, words) \in Headers
         /\ \A p \in Places : LET w == Joined(m, c, n, words)
                              IN  /\ w[p].used = m[p].used /\ w[p].prev = m[p].prev
                                  /\ w[p].next = IF p = c THEN n ELSE m[p].next
                                  /\ p # c => w[p].size = m[p].size
         /\ Joined(m, c, n, words)[c].size = m[c].size + words
<1> DEFINE v == Onto(m, c, n)
<1>1. v \in Headers /\ \A p \in Places : /\ v[p].size = m[p].size /\ v[p].used = m[p].used
                              /\ v[p].prev = m[p].prev
                              /\ v[p].next = IF p = c THEN n ELSE m[p].next
  BY NextSet
<1>2. Joined(m, c, n, words) = Larger(v, c, words)
  BY DEF Joined, Larger, Onto, Headers
<1> HIDE DEF v
<1>3. /\ Larger(v, c, words) \in Headers
      /\ \A p \in Places : LET w == Larger(v, c, words)
                           IN /\ w[p].next = v[p].next /\ w[p].used = v[p].used
                              /\ w[p].prev = v[p].prev
                              /\ w[p].size = IF p = c THEN v[p].size + words ELSE v[p].size
  BY <1>1, SizeSet
<1> QED
  BY <1>1, <1>2, <1>3

LEMMA MergeKeeps ==
  ASSUME NEW m \in Headers, NEW S, NEW last, NEW b, Sound(m, S, last, b),
         NEW c \in S, m[c].next # NULL, ~m[c].used, ~m[m[c].next].used, NEW words \in Nat \ {0},
         NEW w, w = Joined(m, c, m[m[c].next].next, words)
  PROVE  /\ w # m /\ m[c].next \in S /\ c < m[c].next
         /\ Sound(w, S \ {m[c].next}, IF w[c].next = NULL THEN c ELSE last, b)
<1> DEFINE n == m[c].next
           T == S \ {n}
           newlast == IF w[c].next = NULL THEN c ELSE last
<1>1. S \subseteq Places /\ Chain(m, S) /\ c \in Places /\ c \in Nat /\ S \subseteq Nat
  BY Measures DEF Sound, Chain
<1>2. n \in S /\ c < n
  BY <1>1 DEF Chain, Follows
<1>3. m[n].next \in Places \cup {NULL} /\ m[c].size \in Nat
  BY <1>1, <1>2 DEF Headers
<1>4. /\ w \in Headers
      /\ \A p \in Places : /\ w[p].used = m[p].used /\ w[p].prev = m[p].prev
                           /\ w[p].next = IF p = c THEN m[n].next ELSE m[p].next
                           /\ p # c => w[p].size = m[p].size
      /\ w[c].size = m[c].size + words
  <2> DEFINE x == m[n].next
  <2>1. words \in Nat /\ w = Joined(m, c, x, words) /\ x \in Places \cup {NULL}
    BY <1>3
  <2> HIDE DEF x
  <2>2. c \in Places
    BY <1>1
  <2> DEFINE v == Joined(m, c, x, words)
  <2>3. /\ v \in Headers
        /\ \A p \in Places : /\ v[p].used = m[p].used /\ v[p].prev = m[p].prev
                             /\ v[p].next = IF p = c THEN x ELSE m[p].next
                             /\ p # c => v[p].size = m[p].size
        /\ v[c].size = m[c].size + words
    BY <2>1, <2>2, MergeType
  <2>4. v = w
    BY <2>1
  <2> HIDE DEF v
  <2> QED
    BY <2>3, <2>4 DEF x
<1>5. w # m
  <2>1. w[c].size = m[c].size + words
    BY <1>1, <1>4
  <2> QED
    BY <1>3, <2>1
<1>6. Chain(w, T)
  <2>1. w[c].next = m[m[c].next].next /\ \A p \in S \ {c} : w[p].next = m[p].next
    BY <1>1, <1>4
  <2> QED
    BY <1>1, <2>1, ChainShrinks
<1>7. newlast \in T /\ w[newlast].next = NULL /\ ~w[newlast].used
  <2> HIDE DEF n
  <2>1. last \in S /\ m[last].next = NULL /\ ~m[last].used /\ last \in Places
    BY <1>1 DEF Sound
  <2>2. n # c
    BY <1>1, <1>2
  <2>3. CASE w[c].next = NULL
    BY <1>1, <1>2, <1>4, <2>2, <2>3
  <2>4. CASE w[c].next # NULL
    <3>1. last # c /\ last # n
      BY <1>1, <1>4, <2>1, <2>4 DEF n
    <3> QED
      BY <1>1, <1>4, <2>1, <2>4, <3>1
  <2> QED
    BY <2>3, <2>4
<1> HIDE DEF n, newlast
<1>8. \A p \in T : w[p].used <=> (p + 1 \in Places /\ b[p + 1] # {})
  BY <1>1, <1>4 DEF Sound
<1>9. ASSUME NEW q \in Places, b[q] # {}
      PROVE  /\ q - 1 \in T
             /\ \E s \in Sizes : b[q] = {s} /\ w[q - 1].size \in s .. s + HeaderWords - 1
  <2>1. /\ q - 1 \in S
        /\ \E s \in Sizes : b[q] = {s} /\ m[q - 1].size \in s .. s + HeaderWords - 1
    BY <1>9 DEF Sound
  <2>2. m[q - 1].used
    <3>1. q - 1 + 1 = q
      BY Measures
    <3> QED
      BY <1>9, <2>1, <3>1 DEF Sound
  <2>3. q - 1 # c /\ q - 1 # n
    BY <2>2 DEF n
  <2> QED
    BY <1>1, <1>4, <2>1, <2>3
<1>10. \A p \in Places : w[p].prev \in {NULL, p - 1}
  BY <1>4 DEF Sound
<1>11. Sound(w, T, newlast, b)
  <2> HIDE DEF T
  <2> QED
    BY <1>6, <1>7, <1>8, <1>9, <1>10 DEF Sound
<1> QED
  BY <1>2, <1>5, <1>11 DEF n, newlast

\* A block more at q, and one less.
With(b, q, s) == [b EXCEPT ![q] = @ \cup {s}]
Without(b, q, s) == [b EXCEPT ![q] = @ \ {s}]

\* malloc hands out the block of c as it is.
LEMMA HandOutKeeps ==
  ASSUME NEW m \in Headers, NEW S, NEW last, NEW b \in [Places -> SUBSET Sizes],
         Sound(m, S, last, b),
         NEW c \in S, c # last, c + 1 \in Places, ~m[c].used,
         NEW s \in Sizes, m[c].size \in s .. s + HeaderWords - 1,
         NEW w, w = Claimed(m, c),
         NEW d, d = With(b, c + 1, s)
  PROVE  Sound(w, S, last, d)
<1>1. S \subseteq Places /\ Chain(m, S) /\ c \in Places /\ S \subseteq Nat
  BY Measures DEF Sound, Chain
<1>2. \A p \in Places : /\ w[p].next = m[p].next /\ w[p].size = m[p].size
                        /\ w[p].prev = m[p].prev
                        /\ w[p].used = IF p = c THEN TRUE ELSE m[p].used
  <2> DEFINE v == Claimed(m, c)
  <2>1. \A p \in Places : /\ v[p].next = m[p].next /\ v[p].size = m[p].size
                          /\ v[p].prev = m[p].prev
                          /\ v[p].used = IF p = c THEN TRUE ELSE m[p].used
    BY <1>1, ClaimedSet
  <2> HIDE DEF v
  <2> QED
    BY <2>1 DEF v
<1>3. b[c + 1] = {}
  BY DEF Sound
<1>4. d[c + 1] = {s} /\ \A q \in Places : q # c + 1 => d[q] = b[q]
  BY <1>3 DEF With
<1>5. Chain(w, S)
  <2>1. ASSUME NEW p \in S PROVE Follows(w, S, p)
    <3>1. Follows(m, S, p) /\ w[p].next = m[p].next
      BY <1>1, <1>2 DEF Chain
    <3> QED
      BY <3>1 DEF Follows
  <2>2. \A p \in S : w[p].next = m[p].next
    BY <1>1, <1>2
  <2>3. ASSUME NEW q \in S \ {0} PROVE \E p \in S : w[p].next = q
    <3>1. PICK p \in S : m[p].next = q
      BY <1>1 DEF Chain
    <3> QED
      BY <2>2, <3>1
  <2> QED
    BY <1>1, <2>1, <2>3 DEF Chain
<1>6. last \in S /\ w[last].next = NULL /\ ~w[last].used
  BY <1>1, <1>2 DEF Sound
<1>7. ASSUME NEW p \in S PROVE w[p].used <=> (p + 1 \in Places /\ d[p + 1] # {})
  <2>1. CASE p = c
    BY <1>1, <1>2, <1>4, <2>1
  <2>2. CASE p # c
    <3>1. p + 1 # c + 1
      <4>1. p \in Nat /\ c \in Nat
        BY <1>1
      <4> QED
        BY <2>2, <4>1
    <3>2. w[p].used = m[p].used
      BY <1>1, <1>2, <2>2
    <3>3. m[p].used <=> (p + 1 \in Places /\ b[p + 1] # {})
      BY DEF Sound
    <3> QED
      BY <1>4, <3>1, <3>2, <3>3
  <2> QED
    BY <2>1, <2>2
<1>8. ASSUME NEW q \in Places, d[q] # {}
      PROVE  /\ q - 1 \in S
             /\ \E z \in Sizes : d[q] = {z} /\ w[q - 1].size \in z .. z + HeaderWords - 1
  <2>1. CASE q = c + 1
    <3>1. q - 1 = c
      BY <1>1, <2>1
    <3> QED
      BY <1>1, <1>2, <1>4, <2>1, <3>1
  <2>2. CASE q # c + 1
    <3>1. d[q] = b[q]
      BY <1>4, <2>2
    <3>2. /\ q - 1 \in S
          /\ \E z \in Sizes : b[q] = {z} /\ m[q - 1].size \in z .. z + HeaderWords - 1
      BY <1>8, <3>1 DEF Sound
    <3> QED
      BY <1>1, <1>2, <3>1, <3>2
  <2> QED
    BY <2>1, <2>2
<1>9. \A p \in Places : w[p].prev \in {NULL, p - 1}
  BY <1>2 DEF Sound
<1> QED
  BY <1>5, <1>6, <1>7, <1>8, <1>9 DEF Sound

\* malloc splits the block of c, from which r words are left, or what it has grown to.
LEMMA SplitKeeps ==
  ASSUME NEW m \in Headers, NEW S, NEW last, NEW b \in [Places -> SUBSET Sizes],
         Sound(m, S, last, b),
         NEW c \in S, c + 1 \in Places, c + 1 \notin S, ~m[c].used,
         NEW s \in Sizes, NEW r \in Nat,
         NEW w, w = Put(Put(m, c + 1, Header(r, FALSE, m[c].next, c)), c,
                        Header(s, TRUE, c + 1, m[c].prev)),
         NEW d, d = With(b, c + 1, s)
  PROVE  Sound(w, S \cup {c + 1}, IF m[c].next = NULL THEN c + 1 ELSE last, d)
<1> DEFINE new == c + 1
           T == S \cup {new}
           newlast == IF m[c].next = NULL THEN new ELSE last
           nx == m[c].next
           pv == m[c].prev
           hn == Header(r, FALSE, nx, c)
           hc == Header(s, TRUE, new, pv)
           v == Put(m, new, hn)
           x == Put(v, c, hc)
<1>1. /\ S \subseteq Places /\ Chain(m, S) /\ c \in Places /\ S \subseteq Nat /\ c # new
      /\ new \in Nat
  BY Measures DEF Sound, Chain
<1>2. /\ m[c].next \in Places \cup {NULL} /\ m[c].prev \in Places \cup {NULL}
      /\ s \in Nat
  BY <1>1, HeapAssumption DEF Headers
<1>3. w = x
  OBVIOUS
<1>3a. /\ hn \in [size : Nat, used : BOOLEAN, next : Places \cup {NULL},
                 prev : Places \cup {NULL}]
      /\ hc \in [size : Nat, used : BOOLEAN, next : Places \cup {NULL},
                 prev : Places \cup {NULL}]
      /\ hn.used = FALSE /\ hn.next = m[c].next /\ hn.prev = c
      /\ hc.size = s /\ hc.used = TRUE /\ hc.next = new /\ hc.prev = m[c].prev
  BY <1>1, <1>2 DEF Header
<1> HIDE DEF hn, hc
<1>4. v \in Headers /\ v[new] = hn /\ \A q \in Places \ {new} : v[q] = m[q]
  <2>1. new \in Places
    OBVIOUS
  <2> HIDE DEF new
  <2> QED
    BY <1>3a, <2>1, HeaderSet
<1> HIDE DEF v
<1>5. x[c] = hc /\ \A q \in Places \ {c} : x[q] = v[q]
  BY <1>1, <1>3a, <1>4, HeaderSet
<1> HIDE DEF x
<1>6. /\ w[c].size = s /\ w[c].used = TRUE /\ w[c].next = new /\ w[c].prev = m[c].prev
      /\ w[new].used = FALSE /\ w[new].next = m[c].next /\ w[new].prev = c
      /\ \A q \in Places \ {c, new} : w[q] = m[q]
  BY <1>1, <1>3, <1>4, <1>5, <1>3a
<1>7. b[new] = {} /\ (new + 1 \in Places => b[new + 1] = {})
  <2>1. b[new] = {}
    BY DEF Sound
  <2>2. ASSUME NEW q \in Places, q = new + 1, b[q] # {} PROVE FALSE
    <3>1. q - 1 \in S
      BY <2>2 DEF Sound
    <3> QED
      BY <1>1, <2>2, <3>1
  <2> HIDE DEF new
  <2> QED
    BY <2>1, <2>2
<1>8. d[new] = {s} /\ \A q \in Places : q # new => d[q] = b[q]
  BY <1>7 DEF With
<1>9. Chain(w, T)
  <2>1. \A p \in S \ {c} : w[p].next = m[p].next
    BY <1>1, <1>6
  <2>2. w[c].next = c + 1 /\ w[c + 1].next = m[c].next
    BY <1>6
  <2> QED
    BY <1>1, <2>1, <2>2, ChainGrows
<1> HIDE DEF new
<1>10. newlast \in T /\ w[newlast].next = NULL /\ ~w[newlast].used
  <2>1. last \in S /\ m[last].next = NULL /\ ~m[last].used /\ last \in Places
    BY <1>1 DEF Sound
  <2>2. CASE m[c].next = NULL
    BY <1>6, <2>2
  <2>3. CASE m[c].next # NULL
    <3>1. last # c /\ last # new
      BY <2>1, <2>3 DEF new
    <3> QED
      BY <1>6, <2>1, <2>3, <3>1
  <2> QED
    BY <2>2, <2>3
<1> HIDE DEF newlast
<1>11. ASSUME NEW p \in T PROVE w[p].used <=> (p + 1 \in Places /\ d[p + 1] # {})
  <2>1. CASE p = c
    <3>1. p + 1 = new
      BY <2>1 DEF new
    <3>2. p + 1 \in Places /\ d[p + 1] # {}
      BY <1>8, <3>1 DEF new
    <3> QED
      BY <1>6, <2>1, <3>2
  <2>2. CASE p = new
    <3>1. new + 1 # new
      BY <1>1
    <3> QED
      BY <1>6, <1>7, <1>8, <2>2, <3>1
  <2>3. CASE p # c /\ p # new
    <3>0. p \in S /\ p \in Places /\ p \in Nat
      BY <1>1, <2>3
    <3>1. p \in S /\ p \in Places /\ p + 1 # new
      BY <1>1, <2>3, <3>0 DEF new
    <3>2. w[p].used = m[p].used
      BY <1>6, <2>3, <3>1
    <3>3. m[p].used <=> (p + 1 \in Places /\ b[p + 1] # {})
      BY <3>1 DEF Sound
    <3> QED
      BY <1>8, <3>1, <3>2, <3>3
  <2> QED
    BY <2>1, <2>2, <2>3
<1>12. ASSUME NEW q \in Places, d[q] # {}
       PROVE  /\ q - 1 \in T
              /\ \E z \in Sizes : d[q] = {z} /\ w[q - 1].size \in z .. z + HeaderWords - 1
  <2>1. CASE q = new
    <3>1. q - 1 = c /\ s \in s .. s + HeaderWords - 1
      BY <1>1, <1>2, <2>1 DEF new, HeaderWords
    <3>2. d[q] = {s} /\ w[q - 1].size = s /\ c \in T
      BY <1>6, <1>8, <2>1, <3>1
    <3> QED
      BY <3>1, <3>2
  <2>2. CASE q # new
    <3>1. d[q] = b[q]
      BY <1>8, <2>2
    <3>2. /\ q - 1 \in S
          /\ \E z \in Sizes : b[q] = {z} /\ m[q - 1].size \in z .. z + HeaderWords - 1
      BY <1>12, <3>1 DEF Sound
    <3>3. q - 1 # c /\ q - 1 # new
      BY <1>1, <2>2, <3>2, Measures DEF new
    <3>4. w[q - 1] = m[q - 1]
      BY <1>1, <1>6, <3>2, <3>3
    <3> QED
      BY <3>1, <3>2, <3>4
  <2> QED
    BY <2>1, <2>2
<1>13. ASSUME NEW p \in Places PROVE w[p].prev \in {NULL, p - 1}
  <2>1. CASE p = new
    <3>1. p - 1 = c
      BY <1>1, <2>1 DEF new
    <3> QED
      BY <1>6, <2>1, <3>1
  <2>2. CASE p # new
    <3>1. w[p].prev = m[p].prev
      BY <1>6, <2>2
    <3> QED
      BY <3>1 DEF Sound
  <2> QED
    BY <2>1, <2>2
<1> HIDE DEF T
<1>14. Sound(w, T, newlast, d)
  BY <1>9, <1>10, <1>11, <1>12, <1>13 DEF Sound
<1> QED
  BY <1>14 DEF T, newlast, new

Heaps == [last : Places, end : Nat]

LEMMA Types ==
  TypeOK <=> /\ memory \in Headers
             /\ cur_heap \in Heaps /\ saved \in Heaps
             /\ pc \in {"idle", "malloc", "halted"} /\ size \in Nat /\ cur_alloc \in Places
             /\ DOMAIN blocks = Places /\ breach \subseteq Breaches
BY DEF TypeOK, Headers, Heaps

LEMMA TypesNext ==
  TypeOK' <=> /\ memory' \in Headers
              /\ cur_heap' \in Heaps /\ saved' \in Heaps
              /\ pc' \in {"idle", "malloc", "halted"} /\ size' \in Nat /\ cur_alloc' \in Places
              /\ DOMAIN blocks' = Places /\ breach' \subseteq Breaches
BY DEF TypeOK, Headers, Heaps

\* The list is closed, whatever has happened to it.
LEMMA Listed ==
  ASSUME memory \in Headers
  PROVE  /\ ListOf(memory) \subseteq Places /\ 0 \in ListOf(memory)
         /\ \A p \in ListOf(memory) : memory[p].next \in ListOf(memory) \cup {NULL}
BY Linking, ListClosed

LEMMA GrownType == ASSUME NEW h \in Heaps
                   PROVE  Grown(h) \in Heaps /\ Grown(h).last = h.last
BY HeapAssumption DEF Heaps, Grown, HeaderWords

LEMMA MallocInv == ASSUME HeapInv, NEW s \in Sizes, Malloc(s) PROVE HeapInv'
<1>1. /\ pc' = "malloc" /\ size' = s /\ cur_alloc' = 0 /\ InBounds
      /\ UNCHANGED <<memory, cur_heap, saved, blocks, breach>>
  BY DEF Malloc
<1>2. TypeOK'
  BY <1>1, Types, TypesNext, Measures, HeapAssumption DEF HeapInv
<1>3. \A p \in ListOf(memory) : p < MaxPlace
  BY <1>1, ListIs DEF InBounds
<1>4. Walking'
  <2>1. 0 \in ListOf(memory)
    BY Types, Listed DEF HeapInv
  <2> QED
    BY <1>1, <1>3, <2>1 DEF Walking
<1> QED
  BY <1>1, <1>2, <1>4 DEF HeapInv

LEMMA WalkOnInv == ASSUME HeapInv, WalkOn PROVE HeapInv'
<1>1. /\ pc = "malloc" /\ memory[cur_alloc].used
      /\ UNCHANGED <<memory, cur_heap, saved, size, blocks, breach>>
  BY DEF WalkOn, Cur
<1>2. /\ memory \in Headers /\ cur_alloc \in ListOf(memory)
      /\ \A p \in ListOf(memory) : memory[p].next \in ListOf(memory) \cup {NULL}
      /\ ListOf(memory) \subseteq Places
  BY <1>1, Types, Listed DEF HeapInv, Walking
<1>3. CASE memory[cur_alloc].next = NULL
  <2>1. pc' = "halted" /\ UNCHANGED cur_alloc
    BY <1>3 DEF WalkOn, Cur
  <2>2. breach # {}
    <3> SUFFICES ASSUME breach = {} PROVE FALSE
      OBVIOUS
    <3>1. Sound(memory, ListOf(memory), cur_heap.last, blocks)
      BY DEF HeapInv
    <3>2. /\ cur_heap.last \in ListOf(memory) /\ memory[cur_heap.last].next = NULL
          /\ ~memory[cur_heap.last].used /\ Chain(memory, ListOf(memory))
      BY <3>1 DEF Sound
    <3>3. cur_alloc <= cur_heap.last /\ cur_heap.last <= cur_alloc
      BY <1>2, <1>3, <3>2 DEF Chain, Follows
    <3>4. cur_alloc = cur_heap.last
      BY <1>2, <3>2, <3>3, Measures
    <3> QED
      BY <1>1, <3>2, <3>4
  <2>3. TypeOK'
    BY <1>1, <2>1, Types, TypesNext DEF HeapInv
  <2> QED
    BY <1>1, <2>1, <2>2, <2>3 DEF HeapInv, Walking
<1>4. CASE memory[cur_alloc].next # NULL
  <2>1. cur_alloc' = memory[cur_alloc].next /\ UNCHANGED pc
    BY <1>4 DEF WalkOn, Cur
  <2>2. cur_alloc' \in ListOf(memory) /\ cur_alloc' \in Places
    BY <1>2, <1>4, <2>1
  <2>3. TypeOK'
    BY <1>1, <2>1, <2>2, Types, TypesNext DEF HeapInv
  <2>4. Walking'
    BY <1>1, <2>1, <2>2 DEF HeapInv, Walking
  <2> QED
    BY <1>1, <2>1, <2>3, <2>4 DEF HeapInv
<1> QED
  BY <1>3, <1>4

LEMMA EnlargeInv == ASSUME HeapInv, Enlarge PROVE HeapInv'
<1>1. /\ pc = "malloc" /\ cur_alloc = cur_heap.last
      /\ cur_heap' = Grown(cur_heap)
      /\ memory' = Larger(memory, cur_alloc, PageWords)
      /\ UNCHANGED <<saved, pc, size, cur_alloc, blocks, breach>>
  BY DEF Enlarge, Larger, AtLast
<1>2. /\ memory \in Headers /\ cur_alloc \in Places /\ cur_heap \in Heaps /\ PageWords \in Nat
  BY Types, HeapAssumption DEF HeapInv
<1>3. /\ memory' \in Headers
      /\ \A p \in Places : /\ memory'[p].next = memory[p].next
                           /\ memory'[p].used = memory[p].used
                           /\ memory'[p].prev = memory[p].prev
                           /\ p # cur_alloc => memory'[p].size = memory[p].size
  <2> DEFINE w == Larger(memory, cur_alloc, PageWords)
  <2>1. /\ w \in Headers
        /\ \A p \in Places : /\ w[p].next = memory[p].next
                             /\ w[p].used = memory[p].used
                             /\ w[p].prev = memory[p].prev
                             /\ p # cur_alloc => w[p].size = memory[p].size
    BY <1>2, SizeSet
  <2> HIDE DEF w
  <2> QED
    BY <1>1, <2>1 DEF w
<1>4. ListOf(memory') = ListOf(memory) /\ ListOf(memory) \subseteq Places
  BY <1>2, <1>3, Linking, Listed, SameNexts
<1>5. TypeOK'
  BY <1>1, <1>2, <1>3, Types, TypesNext, GrownType DEF HeapInv
<1>6. Walking'
  BY <1>1, <1>4 DEF HeapInv, Walking
<1>7. ASSUME breach = {}, NEW S, S = ListOf(memory)
      PROVE  Sound(memory', S, cur_heap.last, blocks)
  <2>1. Sound(memory, S, cur_heap.last, blocks) /\ S \subseteq Places
    BY <1>4, <1>7 DEF HeapInv
  <2>2. Chain(memory', S)
    <3>1. ASSUME NEW p \in S PROVE Follows(memory', S, p)
      <4>1. Follows(memory, S, p) /\ memory'[p].next = memory[p].next
        BY <1>3, <2>1 DEF Sound, Chain
      <4> QED
        BY <4>1 DEF Follows
    <3>2. ASSUME NEW q \in S \ {0} PROVE \E p \in S : memory'[p].next = q
      <4>1. PICK p \in S : memory[p].next = q
        BY <2>1 DEF Sound, Chain
      <4> QED
        BY <1>3, <2>1, <4>1
    <3>3. 0 \in S
      BY <2>1 DEF Sound, Chain
    <3> QED
      BY <2>1, <3>1, <3>2, <3>3 DEF Chain
  <2>3. ASSUME NEW q \in Places, blocks[q] # {}
        PROVE  /\ q - 1 \in S
               /\ \E s \in Sizes : blocks[q] = {s} /\ memory'[q - 1].size \in s .. s + HeaderWords - 1
    <3>1. /\ q - 1 \in S
          /\ \E s \in Sizes : blocks[q] = {s} /\ memory[q - 1].size \in s .. s + HeaderWords - 1
      BY <2>1, <2>3 DEF Sound
    <3>2. memory[q - 1].used
      <4>1. q - 1 + 1 = q
        BY Measures
      <4> QED
        BY <2>1, <2>3, <3>1, <4>1 DEF Sound
    <3>3. q - 1 # cur_alloc
      BY <1>1, <2>1, <3>2 DEF Sound
    <3> QED
      BY <1>3, <2>1, <3>1, <3>3
  <2> QED
    BY <1>3, <2>1, <2>2, <2>3 DEF Sound
<1> QED
  BY <1>1, <1>2, <1>4, <1>5, <1>6, <1>7, GrownType DEF HeapInv

LEMMA GiveUpInv == ASSUME HeapInv, GiveUp PROVE HeapInv'
<1>1. /\ pc' = "idle" /\ cur_heap' = Grown(cur_heap) /\ size' = 0 /\ cur_alloc' = 0
      /\ UNCHANGED <<memory, saved, blocks, breach>>
  BY DEF GiveUp, ReturnNULL
<1>2. cur_heap' \in Heaps /\ cur_heap'.last = cur_heap.last
  BY <1>1, Types, GrownType DEF HeapInv
<1>3. TypeOK'
  BY <1>1, <1>2, Types, TypesNext, Measures DEF HeapInv
<1> QED
  BY <1>1, <1>2, <1>3 DEF HeapInv, Walking

LEMMA HandOutInv == ASSUME HeapInv, HandOut PROVE HeapInv'
<1>1. /\ pc = "malloc" /\ ~memory[cur_alloc].used /\ cur_alloc # cur_heap.last
      /\ memory[cur_alloc].size = size \/ Tight(memory[cur_alloc].size)
      /\ memory' = Claimed(memory, cur_alloc)
      /\ blocks' = [blocks EXCEPT ![cur_alloc + 1] = @ \cup {size}]
      /\ pc' = "idle" /\ size' = 0 /\ cur_alloc' = 0 /\ UNCHANGED <<saved, cur_heap, breach>>
  BY DEF HandOut, Return, Cur, AtLast, Claimed
<1>2. /\ memory \in Headers /\ size \in Sizes /\ size \in Nat
      /\ cur_alloc \in ListOf(memory) /\ cur_alloc < MaxPlace /\ cur_alloc \in Places
  BY <1>1, Types DEF HeapInv, Walking
<1>3. cur_alloc + 1 \in Places /\ memory[cur_alloc].size \in Nat
  BY <1>2, Measures DEF Headers
<1>4. memory' \in Headers /\ \A p \in Places : memory'[p].next = memory[p].next
  <2> DEFINE w == Claimed(memory, cur_alloc)
  <2>1. w \in Headers /\ \A p \in Places : w[p].next = memory[p].next
    BY <1>2, ClaimedSet
  <2> HIDE DEF w
  <2> QED
    BY <1>1, <2>1 DEF w
<1>5. ListOf(memory') = ListOf(memory)
  BY <1>2, <1>4, Linking, Listed, SameNexts
<1>6. blocks' \in [Places -> SUBSET Sizes]
  BY <1>1, <1>2, <1>3 DEF HeapInv
<1>7. TypeOK'
  <2>1. DOMAIN blocks' = Places
    BY <1>6
  <2>2. /\ pc' = "idle" /\ size' = 0 /\ cur_alloc' = 0 /\ UNCHANGED <<saved, cur_heap, breach>>
        /\ memory' \in Headers
    BY <1>1, <1>4
  <2> QED
    BY <2>1, <2>2, Types, TypesNext, Measures DEF HeapInv
<1>8. ASSUME breach = {} PROVE Sound(memory', ListOf(memory), cur_heap.last, blocks')
  <2>1. Sound(memory, ListOf(memory), cur_heap.last, blocks)
    BY <1>8 DEF HeapInv
  <2>2. memory[cur_alloc].size \in size .. size + HeaderWords - 1
    BY <1>1, <1>2, <1>3 DEF Tight, HeaderWords
  <2>4. blocks' = With(blocks, cur_alloc + 1, size)
    BY <1>1 DEF With
  <2>3. blocks \in [Places -> SUBSET Sizes]
    BY DEF HeapInv
  <2> QED
    BY <1>1, <1>2, <1>3, <2>1, <2>2, <2>3, <2>4, HandOutKeeps
<1> QED
  BY <1>1, <1>5, <1>6, <1>7, <1>8 DEF HeapInv, Walking

LEMMA SplitInv ==
  ASSUME HeapInv, pc = "malloc", ~Cur.used, NEW s \in Nat, s >= HeaderWords, NEW heap \in Heaps,
         heap.last = cur_heap.last, Split(s, heap)
  PROVE  HeapInv'
<1> DEFINE c == cur_alloc
           new == c + 1
           r == s - HeaderWords
           m == memory
           hn == Header(r, FALSE, m[c].next, c)
           hc == Header(size, TRUE, new, m[c].prev)
           w == Put(Put(m, new, hn), c, hc)
           L == ListOf(memory)
<1>1. /\ m \in Headers /\ size \in Sizes /\ size \in Nat /\ r \in Nat
      /\ c \in L /\ c < MaxPlace /\ c \in Places /\ c \in Nat
      /\ blocks \in [Places -> SUBSET Sizes]
  BY Types, Measures, HeapAssumption DEF HeapInv, Walking, HeaderWords
<1>2. new \in Places /\ new # c
  BY <1>1, Measures
<1>3. /\ cur_heap' = IF m[c].next = NULL THEN [heap EXCEPT !.last = new] ELSE heap
      /\ breach' = IF new \in L THEN breach \cup {"overrun"} ELSE breach
      /\ blocks' = [blocks EXCEPT ![new] = @ \cup {size}]
      /\ pc' = "idle" /\ size' = 0 /\ cur_alloc' = 0 /\ UNCHANGED saved
  BY ListIs DEF Split, Return, Cur
<1>4. memory' = w
  <2>1. memory' = [m EXCEPT ![new] = hn, ![c] = hc]
    BY DEF Split, Cur
  <2> HIDE DEF hn, hc, new
  <2> QED
    BY <1>1, <2>1 DEF Put, Headers
<1>5. /\ hn \in [size : Nat, used : BOOLEAN, next : Places \cup {NULL}, prev : Places \cup {NULL}]
      /\ hc \in [size : Nat, used : BOOLEAN, next : Places \cup {NULL}, prev : Places \cup {NULL}]
      /\ hn.next = m[c].next /\ hc.next = new
  BY <1>1, <1>2 DEF Header, Headers
<1>6. /\ w \in Headers /\ w[c].next = new /\ w[new].next = m[c].next
      /\ \A p \in Places \ {c, new} : w[p] = m[p]
  <2> DEFINE v == Put(m, new, hn)
  <2> HIDE DEF hn, hc, new
  <2>1. v \in Headers /\ v[new] = hn /\ \A q \in Places \ {new} : v[q] = m[q]
    BY <1>1, <1>2, <1>5, HeaderSet
  <2> HIDE DEF v
  <2>2. /\ Put(v, c, hc) \in Headers /\ Put(v, c, hc)[c] = hc
        /\ \A q \in Places \ {c} : Put(v, c, hc)[q] = v[q]
    BY <1>1, <1>5, <2>1, HeaderSet
  <2> QED
    BY <1>2, <1>5, <2>1, <2>2 DEF v
<1>7. cur_heap' \in Heaps
  BY <1>2, <1>3 DEF Heaps
<1>8. blocks' \in [Places -> SUBSET Sizes]
  BY <1>1, <1>2, <1>3
<1>9. breach' \subseteq Breaches
  BY <1>3, Types DEF HeapInv, Breaches
<1>10. TypeOK'
  <2>1. DOMAIN blocks' = Places
    BY <1>8
  <2>2. memory' \in Headers
    BY <1>4, <1>6
  <2> HIDE DEF w
  <2> QED
    BY <1>3, <1>7, <1>9, <2>1, <2>2, Types, TypesNext, Measures DEF HeapInv
<1>11. ASSUME breach' = {}
       PROVE  Sound(memory', ListOf(memory'), cur_heap'.last, blocks')
  <2>1. breach = {} /\ new \notin L
    BY <1>3, <1>11
  <2>2. Sound(m, L, cur_heap.last, blocks)
    BY <2>1 DEF HeapInv
  <2>3. cur_heap'.last = IF m[c].next = NULL THEN new ELSE cur_heap.last
    BY <1>3 DEF Heaps
  <2>4. ~m[c].used
    BY DEF Cur
  <2>8. w = Put(Put(m, c + 1, Header(r, FALSE, m[c].next, c)), c,
                Header(size, TRUE, c + 1, m[c].prev))
    OBVIOUS
  <2>9. c + 1 \in Places /\ c + 1 \notin L /\ blocks' = With(blocks, c + 1, size)
    BY <1>2, <1>3, <2>1 DEF With
  <2>10. blocks \in [Places -> SUBSET Sizes]
    BY <1>1
  <2> HIDE DEF r, L, m, w
  <2>5. Sound(w, L \cup {new}, IF m[c].next = NULL THEN new ELSE cur_heap.last, blocks')
    BY <1>1, <2>2, <2>4, <2>8, <2>9, <2>10, SplitKeeps
  <2>6. Chain(w, L \cup {new})
    BY <2>5 DEF Sound
  <2>7. ListOf(w) = L \cup {new}
    BY <1>6, <2>6, Linking, ChainIsList
  <2> QED
    BY <1>4, <2>3, <2>5, <2>7
<1> QED
  BY <1>3, <1>8, <1>10, <1>11 DEF HeapInv, Walking

LEMMA DivideInv == ASSUME HeapInv, Divide PROVE HeapInv'
<1>1. /\ pc = "malloc" /\ ~Cur.used /\ Cur.size \in Nat /\ size \in Nat /\ cur_heap \in Heaps
      /\ PageWords \in Nat /\ PageWords > HeaderWords
  BY Types, HeapAssumption DEF HeapInv, Headers, Divide, Cur
<1>2. CASE Cur.size >= size + HeaderWords /\ Split(Cur.size, cur_heap)
  <2>1. Cur.size >= HeaderWords
    BY <1>1, <1>2 DEF HeaderWords
  <2> QED
    BY <1>1, <1>2, <2>1, SplitInv
<1>3. CASE Split(Cur.size + PageWords, Grown(cur_heap))
  <2>1. Cur.size + PageWords \in Nat /\ Cur.size + PageWords >= HeaderWords
    BY <1>1 DEF HeaderWords
  <2>2. Grown(cur_heap) \in Heaps /\ Grown(cur_heap).last = cur_heap.last
    BY <1>1, GrownType
  <2> QED
    BY <1>1, <1>3, <2>1, <2>2, SplitInv
<1> QED
  BY <1>2, <1>3 DEF Divide

LEMMA ClearInv == ASSUME HeapInv, NEW b, NEW s \in Nat, b \in Places, Clear(b, s) PROVE HeapInv'
<1>1. /\ pc = "idle" /\ UNCHANGED <<cur_heap, saved, pc, size, cur_alloc, blocks>>
      /\ breach' = {"written"}
      /\ memory' = [p \in Places |->
           IF p < b THEN memory[p] ELSE Cleared(memory[p], s - (p - b) * HeaderWords)]
  BY DEF Clear
<1>2. ASSUME NEW h \in [size : Nat, used : BOOLEAN, next : Places \cup {NULL}, prev : Places \cup {NULL}],
             NEW n
      PROVE  Cleared(h, n) \in [size : Nat, used : BOOLEAN, next : Places \cup {NULL},
                                prev : Places \cup {NULL}]
  BY DEF Cleared, Header
<1>3. memory' \in Headers
  BY <1>1, <1>2, Types DEF HeapInv, Headers
<1> QED
  BY <1>1, <1>3, Types, TypesNext DEF HeapInv, Walking, Breaches

LEMMA KeepInv == ASSUME HeapInv, Keep PROVE HeapInv'
<1>1. /\ pc = "idle" /\ saved' = cur_heap
      /\ UNCHANGED <<memory, cur_heap, pc, size, cur_alloc, blocks, breach>>
  BY DEF Keep
<1> QED
  BY <1>1, Types, TypesNext DEF HeapInv, Walking

LEMMA SetBackInv == ASSUME HeapInv, SetBack PROVE HeapInv'
<1>1. /\ pc = "idle" /\ cur_heap' = saved
      /\ breach' = IF saved.last # cur_heap.last THEN breach \cup {"stale"} ELSE breach
      /\ UNCHANGED <<memory, saved, pc, size, cur_alloc, blocks>>
  BY DEF SetBack
<1>2. TypeOK'
  BY <1>1, Types, TypesNext DEF HeapInv, Breaches
<1>3. breach' = {} => breach = {} /\ cur_heap'.last = cur_heap.last
  BY <1>1
<1> QED
  BY <1>1, <1>2, <1>3 DEF HeapInv, Walking

\* free marks the header free and takes the block from its holder.
LEMMA ReleaseKeeps ==
  ASSUME NEW m \in Headers, NEW S, NEW last, NEW b \in [Places -> SUBSET Sizes],
         Sound(m, S, last, b),
         NEW q \in Places, NEW s \in b[q],
         NEW w, w = Freed(m, q - 1),
         NEW d, d = Without(b, q, s)
  PROVE  q - 1 \in S /\ ~w[q - 1].used /\ Sound(w, S, last, d)
<1> DEFINE c == q - 1
<1>1. S \subseteq Places /\ Chain(m, S) /\ S \subseteq Nat
  BY Measures DEF Sound, Chain
<1>2. /\ c \in S /\ \E z \in Sizes : b[q] = {z}
  BY DEF Sound
<1>3. c + 1 = q /\ c \in Places /\ q \in Nat
  BY <1>1, <1>2, Measures
<1>4. m[c].used /\ c # last
  BY <1>2, <1>3 DEF Sound
<1> HIDE DEF c
<1>5. \A p \in Places : /\ w[p].next = m[p].next /\ w[p].size = m[p].size
                        /\ w[p].prev = m[p].prev
                        /\ w[p].used = IF p = c THEN FALSE ELSE m[p].used
  <2> DEFINE v == Freed(m, c)
  <2>1. \A p \in Places : /\ v[p].next = m[p].next /\ v[p].size = m[p].size
                          /\ v[p].prev = m[p].prev
                          /\ v[p].used = IF p = c THEN FALSE ELSE m[p].used
    BY <1>3, FreedSet
  <2>2. v = w
    BY DEF c
  <2> HIDE DEF v
  <2> QED
    BY <2>1, <2>2
<1>6. d[q] = {} /\ \A p \in Places : p # q => d[p] = b[p]
  BY <1>2 DEF Without
<1>7. Chain(w, S)
  <2>1. ASSUME NEW p \in S PROVE Follows(w, S, p)
    <3>1. Follows(m, S, p) /\ w[p].next = m[p].next
      BY <1>1, <1>5 DEF Chain
    <3> QED
      BY <3>1 DEF Follows
  <2>2. \A p \in S : w[p].next = m[p].next
    BY <1>1, <1>5
  <2>3. ASSUME NEW t \in S \ {0} PROVE \E p \in S : w[p].next = t
    <3>1. PICK p \in S : m[p].next = t
      BY <1>1 DEF Chain
    <3> QED
      BY <2>2, <3>1
  <2> QED
    BY <1>1, <2>1, <2>3 DEF Chain
<1>8. last \in S /\ w[last].next = NULL /\ ~w[last].used
  BY <1>1, <1>4, <1>5 DEF Sound
<1>9. ASSUME NEW p \in S PROVE w[p].used <=> (p + 1 \in Places /\ d[p + 1] # {})
  <2>1. CASE p = c
    BY <1>3, <1>5, <1>6, <2>1
  <2>2. CASE p # c
    <3>1. p + 1 # q
      BY <1>1, <1>3, <2>2, Measures
    <3>2. w[p].used = m[p].used
      BY <1>1, <1>5, <2>2
    <3>3. m[p].used <=> (p + 1 \in Places /\ b[p + 1] # {})
      BY DEF Sound
    <3> QED
      BY <1>6, <3>1, <3>2, <3>3
  <2> QED
    BY <2>1, <2>2
<1>10. ASSUME NEW p \in Places, d[p] # {}
       PROVE  /\ p - 1 \in S
              /\ \E z \in Sizes : d[p] = {z} /\ w[p - 1].size \in z .. z + HeaderWords - 1
  <2>1. d[p] = b[p]
    BY <1>6, <1>10
  <2>2. /\ p - 1 \in S
        /\ \E z \in Sizes : b[p] = {z} /\ m[p - 1].size \in z .. z + HeaderWords - 1
    BY <1>10, <2>1 DEF Sound
  <2> QED
    BY <1>1, <1>5, <2>1, <2>2
<1>11. \A p \in Places : w[p].prev \in {NULL, p - 1}
  BY <1>5 DEF Sound
<1> QED
  BY <1>2, <1>3, <1>5, <1>7, <1>8, <1>9, <1>10, <1>11 DEF Sound, c

\* What a merge writes is headers, on the list or not.
LEMMA MergeTypes ==
  ASSUME NEW m \in Headers, NEW c \in Places
  PROVE  /\ MergedNext(m, c) \in Headers /\ MergedPrev(m, c) \in Headers
         /\ MergedNext(m, c)[c].prev = m[c].prev
         /\ MergedNext(m, c)[c].used = m[c].used
<1> DEFINE n == m[c].next
           p == m[c].prev
<1>1. n \in Places \cup {NULL} /\ p \in Places \cup {NULL} /\ m[c].size \in Nat
  BY DEF Headers
<1> HIDE DEF n, p
<1>2. ASSUME n # NULL, ~m[n].used
      PROVE  /\ MergedNext(m, c) \in Headers /\ MergedNext(m, c)[c].prev = m[c].prev
             /\ MergedNext(m, c)[c].used = m[c].used
  <2> DEFINE x == m[n].next
             words == m[n].size + HeaderWords
  <2>1. n \in Places /\ x \in Places \cup {NULL} /\ words \in Nat
    BY <1>1, <1>2 DEF Headers, HeaderWords
  <2>2. MergedNext(m, c) = [m EXCEPT ![c].next = x, ![c].size = @ + m[n].size + HeaderWords]
    BY <1>2 DEF MergedNext, n
  <2>3. MergedNext(m, c) = Joined(m, c, x, words)
    <3>1. m[c].size + m[n].size + HeaderWords = m[c].size + words
      BY <1>1, <2>1 DEF Headers, HeaderWords
    <3> HIDE DEF x, words
    <3> QED
      BY <2>2, <3>1 DEF Joined
  <2> HIDE DEF x, words
  <2> DEFINE v == Joined(m, c, x, words)
  <2>4. v \in Headers /\ \A i \in Places : v[i].used = m[i].used /\ v[i].prev = m[i].prev
    BY <2>1, MergeType
  <2> HIDE DEF v
  <2> QED
    BY <2>3, <2>4 DEF v
<1>3. ASSUME p # NULL, ~m[p].used PROVE MergedPrev(m, c) \in Headers
  <2> DEFINE x == m[c].next
             words == m[c].size + HeaderWords
  <2>1. p \in Places /\ x \in Places \cup {NULL} /\ words \in Nat
    BY <1>1, <1>3 DEF Headers, HeaderWords
  <2>2. MergedPrev(m, c) = [m EXCEPT ![p].next = x, ![p].size = @ + m[c].size + HeaderWords]
    BY <1>3 DEF MergedPrev, p
  <2>3. MergedPrev(m, c) = Joined(m, p, x, words)
    <3>1. m[p].size + m[c].size + HeaderWords = m[p].size + words
      BY <1>1, <2>1 DEF Headers, HeaderWords
    <3> HIDE DEF x, words
    <3> QED
      BY <2>2, <3>1 DEF Joined
  <2> HIDE DEF x, words
  <2> DEFINE v == Joined(m, p, x, words)
  <2>4. v \in Headers /\ \A i \in Places : v[i].used = m[i].used /\ v[i].prev = m[i].prev
    BY <2>1, MergeType
  <2> HIDE DEF v
  <2> QED
    BY <2>3, <2>4 DEF v
<1>4. (n = NULL \/ m[n].used) => MergedNext(m, c) = m
  BY DEF MergedNext, n
<1>5. (p = NULL \/ m[p].used) => MergedPrev(m, c) = m
  BY DEF MergedPrev, p
<1> QED
  BY <1>2, <1>3, <1>4, <1>5

\* The merge with the block behind keeps the list, as far as c at least.
LEMMA MergeNextKeeps ==
  ASSUME NEW m \in Headers, NEW S, NEW last, NEW b, Sound(m, S, last, b),
         NEW c \in S, ~m[c].used,
         NEW w, w = MergedNext(m, c)
  PROVE  \E T \in SUBSET S :
           /\ \A q \in S : q <= c => q \in T
           /\ Sound(w, T, IF w # m /\ w[c].next = NULL THEN c ELSE last, b)
<1> DEFINE n == m[c].next
<1>1. S \subseteq Places /\ c \in Places /\ c \in Nat /\ S \subseteq Nat
  BY Measures DEF Sound, Chain
<1>2. CASE n = NULL \/ m[n].used
  <2>1. w = m
    BY <1>2 DEF MergedNext
  <2> QED
    BY <2>1
<1>3. CASE n # NULL /\ ~m[n].used
  <2> DEFINE x == m[n].next
             words == m[n].size + HeaderWords
  <2>1. n \in Places /\ m[c].size \in Nat /\ m[n].size \in Nat /\ words \in Nat \ {0}
    <3>1. n \in Places
      BY <1>1, <1>3 DEF Headers
    <3> HIDE DEF n
    <3>2. m[c].size \in Nat /\ m[n].size \in Nat
      BY <1>1, <3>1 DEF Headers
    <3> QED
      BY <3>1, <3>2 DEF HeaderWords
  <2>2. w = Joined(m, c, x, words)
    <3>1. w = [m EXCEPT ![c].next = x, ![c].size = @ + m[n].size + HeaderWords]
      BY <1>3 DEF MergedNext
    <3>2. m[c].size + m[n].size + HeaderWords = m[c].size + words
      BY <2>1 DEF HeaderWords
    <3> HIDE DEF x, words
    <3> QED
      BY <3>1, <3>2 DEF Joined
  <2> HIDE DEF words
  <2>3. /\ w # m /\ n \in S /\ c < n
        /\ Sound(w, S \ {n}, IF w[c].next = NULL THEN c ELSE last, b)
    BY <1>3, <2>1, <2>2, MergeKeeps
  <2>4. \A q \in S : q <= c => q \in S \ {n}
    BY <1>1, <2>3
  <2> QED
    BY <2>3, <2>4
<1> QED
  BY <1>2, <1>3

\* So does the merge with the block in front, if that is on the list.
LEMMA MergePrevKeeps ==
  ASSUME NEW m \in Headers, NEW S, NEW last, NEW b, Sound(m, S, last, b),
         NEW c \in S, ~m[c].used,
         NEW w, w = MergedPrev(m, c), w # m => m[c].prev \in S
  PROVE  \E T \in SUBSET S :
           Sound(w, T, IF w # m /\ w[m[c].prev].next = NULL THEN m[c].prev ELSE last, b)
<1> DEFINE p == m[c].prev
<1>1. S \subseteq Places /\ c \in Places /\ c \in Nat /\ S \subseteq Nat /\ Chain(m, S)
  BY Measures DEF Sound, Chain
<1>2. CASE w = m
  BY <1>2
<1>3. CASE w # m
  <2>1. p # NULL /\ ~m[p].used /\ p \in S
    BY <1>3 DEF MergedPrev
  <2>2. p + 1 = c
    BY <1>1, <2>1 DEF Sound
  <2>3. m[p].next = c
    <3>1. p + 1 \in S
      BY <2>2
    <3> HIDE DEF p
    <3> QED
      BY <1>1, <2>1, <2>2, <3>1, NextDoor
  <2> DEFINE x == m[c].next
             words == m[c].size + HeaderWords
  <2>4. m[c].size \in Nat /\ m[p].size \in Nat /\ words \in Nat \ {0}
    <3> HIDE DEF p
    <3>1. m[c].size \in Nat /\ m[p].size \in Nat
      BY <1>1, <2>1 DEF Headers
    <3> QED
      BY <3>1 DEF HeaderWords
  <2>5. w = Joined(m, p, x, words)
    <3>1. w = [m EXCEPT ![p].next = x, ![p].size = @ + m[c].size + HeaderWords]
      BY <2>1 DEF MergedPrev
    <3>2. m[p].size + m[c].size + HeaderWords = m[p].size + words
      BY <2>4 DEF HeaderWords
    <3> HIDE DEF x, words, p
    <3> QED
      BY <3>1, <3>2 DEF Joined
  <2>6. w = Joined(m, p, m[m[p].next].next, words) /\ m[p].next # NULL /\ ~m[m[p].next].used
    BY <1>1, <2>3, <2>5, Measures
  <2> HIDE DEF words, p
  <2>7. Sound(w, S \ {m[p].next}, IF w[p].next = NULL THEN p ELSE last, b)
    BY <2>1, <2>4, <2>6, MergeKeeps
  <2> QED
    BY <1>3, <2>7 DEF p
<1> QED
  BY <1>2, <1>3

LEMMA FreeInv ==
  ASSUME HeapInv, NEW b \in Places, NEW s \in Sizes, Free(b, s)
  PROVE  HeapInv'
<1> DEFINE c  == b - 1
           m0 == [memory EXCEPT ![c].used = FALSE]
           m1 == MergedNext(m0, c)
           m2 == MergedPrev(m1, c)
           p  == memory[c].prev
           L == ListOf(memory)
           last1 == IF m1 # m0 /\ m1[c].next = NULL THEN c ELSE cur_heap.last
           last2 == IF m2 # m1 /\ m2[p].next = NULL THEN p ELSE last1
           d == [blocks EXCEPT ![b] = @ \ {s}]
<1>1. /\ pc = "idle" /\ breach = {} /\ s \in blocks[b]
      /\ memory' = m2
      /\ cur_heap' = [cur_heap EXCEPT !.last = last2]
      /\ blocks' = d
      /\ breach' = IF m2 # m1 /\ p \notin L THEN breach \cup {"skipped"} ELSE breach
      /\ UNCHANGED <<saved, pc, size, cur_alloc>>
  <2>1. [cur_heap EXCEPT !.last = IF m2 # m1 /\ m2[p].next = NULL THEN p
                                  ELSE IF m1 # m0 /\ m1[c].next = NULL THEN c ELSE @]
          = [cur_heap EXCEPT !.last = last2]
    OBVIOUS
  <2> QED
    BY <2>1, ListIs DEF Free, Whole
<1>2. /\ memory \in Headers /\ cur_heap \in Heaps /\ blocks \in [Places -> SUBSET Sizes]
      /\ Sound(memory, L, cur_heap.last, blocks)
  BY <1>1, Types DEF HeapInv
<1>3. m0 = Freed(memory, b - 1)
  BY DEF Freed
<1>4. c \in L /\ ~m0[c].used /\ Sound(m0, L, cur_heap.last, d)
  <2>1. d = Without(blocks, b, s)
    BY DEF Without
  <2> HIDE DEF m0, L, d
  <2>2. s \in blocks[b] /\ memory \in Headers
    BY <1>1, <1>2
  <2>3. b - 1 \in L /\ ~m0[b - 1].used /\ Sound(m0, L, cur_heap.last, d)
    BY <1>2, <1>3, <2>1, <2>2, ReleaseKeeps
  <2> QED
    BY <2>3
<1>5. c \in Places /\ c \in Nat /\ L \subseteq Places /\ L \subseteq Nat
  BY <1>2, <1>4, Measures DEF Sound, Chain
<1>6. m0 \in Headers /\ m0[c].prev = p
  <2> DEFINE v == Freed(memory, c)
  <2>1. v \in Headers /\ \A q \in Places : v[q].prev = memory[q].prev
    BY <1>2, <1>5, FreedSet
  <2>2. v = m0
    BY <1>3
  <2> HIDE DEF v, m0, c
  <2> QED
    BY <1>5, <2>1, <2>2
<1> HIDE DEF m0, c, L, d, p
<1>7. m1 \in Headers /\ m1[c].prev = p /\ ~m1[c].used
  BY <1>4, <1>5, <1>6, MergeTypes
<1>8. PICK S \in SUBSET L : /\ \A q \in L : q <= c => q \in S
                            /\ Sound(m1, S, last1, d)
  <2> HIDE DEF m1
  <2>1. m1 = MergedNext(m0, c)
    BY DEF m1
  <2> QED
    BY <1>4, <1>6, <2>1, MergeNextKeeps
<1> HIDE DEF m1, last1
<1>9. m2 \in Headers
  BY <1>5, <1>7, MergeTypes
<1>10. m2 # m1 => p \in Places
  <2>1. p \in Places \cup {NULL}
    BY <1>2, <1>5 DEF Headers, p
  <2> QED
    BY <1>7, <2>1 DEF MergedPrev
<1> HIDE DEF m2
<1>11. last1 \in Places
  BY <1>2, <1>5 DEF last1, Heaps
<1>12. cur_heap' \in Heaps /\ cur_heap'.last = last2
  BY <1>1, <1>2, <1>10, <1>11 DEF Heaps
<1> HIDE DEF last2
<1>13. blocks' \in [Places -> SUBSET Sizes]
  BY <1>1, <1>2 DEF d
<1>14. TypeOK'
  <2>1. DOMAIN blocks' = Places
    BY <1>13
  <2>2. breach' \subseteq Breaches /\ memory' \in Headers
    BY <1>1, <1>9, Types DEF HeapInv, Breaches
  <2>3. UNCHANGED <<saved, pc, size, cur_alloc>>
    BY <1>1
  <2> QED
    BY <1>12, <2>1, <2>2, <2>3, Types, TypesNext DEF HeapInv
<1>15. ASSUME breach' = {} PROVE Sound(memory', ListOf(memory'), cur_heap'.last, blocks')
  <2>1. m2 # m1 => p \in L
    BY <1>1, <1>15
  <2>2. m2 # m1 => p \in S
    <3> SUFFICES ASSUME m2 # m1 PROVE p \in S
      OBVIOUS
    <3>1. p \in L /\ p # NULL
      BY <1>5, <2>1, Measures
    <3>2. p = c - 1
      BY <1>2, <1>5, <3>1 DEF Sound, p
    <3> QED
      BY <1>5, <1>8, <3>1, <3>2
  <2>3. c \in S
    BY <1>4, <1>5, <1>8
  <2>4. PICK T : Sound(m2, T, last2, d)
    <3>1. m2 = MergedPrev(m1, c)
      BY DEF m2
    <3>2. \E T \in SUBSET S :
             Sound(m2, T, IF m2 # m1 /\ m2[m1[c].prev].next = NULL THEN m1[c].prev ELSE last1, d)
      BY <1>7, <1>8, <2>2, <2>3, <3>1, MergePrevKeeps
    <3> QED
      BY <1>7, <3>2 DEF last2
  <2>5. ListOf(m2) = T
    BY <1>9, <2>4, Linking, ChainIsList DEF Sound
  <2> QED
    BY <1>1, <1>12, <2>4, <2>5
<1> QED
  BY <1>1, <1>13, <1>14, <1>15 DEF HeapInv, Walking

LEMMA HeapInit == Init => HeapInv
<1> SUFFICES ASSUME Init PROVE HeapInv
  OBVIOUS
<1> DEFINE h == HeapPages * PageWords
<1>1. h \in Nat /\ 0 \in Places
  BY HeapAssumption, Measures
<1> HIDE DEF h
<1>2. memory = [p \in Places |-> Header(IF p = 0 THEN h ELSE 0, FALSE, NULL, NULL)]
  BY DEF Init, h
<1>3. memory \in Headers /\ \A p \in Places : /\ memory[p].next = NULL /\ memory[p].prev = NULL
                                              /\ memory[p].used = FALSE
  BY <1>1, <1>2 DEF Headers, Header
<1>4. Chain(memory, {0})
  BY <1>1, <1>3 DEF Chain, Follows
<1>5. ListOf(memory) = {0}
  BY <1>3, <1>4, Linking, ChainIsList
<1>6. /\ cur_heap = [last |-> 0, end |-> 0] /\ saved = cur_heap /\ size = 0
      /\ cur_alloc = 0 /\ blocks = [p \in Places |-> {}]
      /\ pc \in {"idle", "halted"} /\ breach \subseteq Breaches
      /\ breach = {} => pc = "idle"
  BY DEF Init, Breaches
<1>7. TypeOK
  BY <1>1, <1>3, <1>6, Types DEF Heaps
<1>8. Sound(memory, {0}, 0, blocks)
  BY <1>1, <1>3, <1>4, <1>6 DEF Sound
<1> QED
  BY <1>5, <1>6, <1>7, <1>8 DEF HeapInv, Walking

LEMMA HeapNext == HeapInv /\ [Next]_vars => HeapInv'
<1> SUFFICES ASSUME HeapInv, [Next]_vars PROVE HeapInv'
  OBVIOUS
<1>1. CASE MallocStep
  BY <1>1, WalkOnInv, HandOutInv, DivideInv, EnlargeInv, GiveUpInv DEF MallocStep
<1>2. ASSUME NEW s \in Sizes, Malloc(s) PROVE HeapInv'
  BY <1>2, MallocInv
<1>3. ASSUME NEW h \in Held, Free(h[1], h[2]) \/ Clear(h[1], h[2]) PROVE HeapInv'
  <2>1. h[1] \in Places /\ h[2] \in Sizes /\ h[2] \in Nat
    BY <1>3, HeapAssumption DEF Held
  <2> QED
    BY <1>3, <2>1, FreeInv, ClearInv
<1>4. CASE Keep
  BY <1>4, KeepInv
<1>5. CASE SetBack
  BY <1>5, SetBackInv
<1>6. CASE UNCHANGED vars
  BY <1>6 DEF vars, HeapInv, TypeOK, Walking
<1> QED
  BY <1>1, <1>2, <1>3, <1>4, <1>5, <1>6 DEF Next

LEMMA HeapPromise == HeapInv => ListWhole
<1> SUFFICES ASSUME HeapInv PROVE ListWhole
  OBVIOUS
<1>1. TypeOK
  BY DEF HeapInv
<1> SUFFICES ASSUME breach = {}
             PROVE  /\ pc # "halted"
                    /\ cur_heap.last \in List
                    /\ \A p \in List : (memory[p].next = NULL) <=> (p = cur_heap.last)
                    /\ \A p, q \in List : memory[p].next = memory[q].next => p = q
                    /\ \A p \in List : memory[p].next # 0
                    /\ ~memory[cur_heap.last].used
                    /\ \A p \in List : memory[p].used <=> (p + 1 \in Places /\ blocks[p + 1] # {})
                    /\ \A p \in Places : blocks[p] # {} =>
                         /\ Cardinality(blocks[p]) = 1 /\ p - 1 \in List
                         /\ \A s \in blocks[p] : memory[p - 1].size \in s .. s + HeaderWords - 1
  BY <1>1 DEF ListWhole
<1>2. pc # "halted" /\ Sound(memory, List, cur_heap.last, blocks)
  BY ListIs DEF HeapInv
<1>3. List \subseteq Nat /\ \A p \in List : Follows(memory, List, p)
  BY <1>2, Measures DEF Sound, Chain
<1>4. ASSUME NEW p \in List, NEW q \in List, memory[p].next = memory[q].next PROVE p = q
  <2>1. ASSUME NEW x \in List, NEW y \in List, memory[x].next = memory[y].next, x < y PROVE FALSE
    <3> DEFINE n == memory[x].next
    <3>1. Follows(memory, List, x) /\ Follows(memory, List, y) /\ x \in Nat /\ y \in Nat
      BY <1>3
    <3>2. CASE n = NULL
      BY <2>1, <3>1, <3>2 DEF Follows
    <3>3. CASE n # NULL
      <4>1. n \in Nat /\ y < n /\ (y <= x \/ n <= y)
        BY <1>3, <2>1, <3>1, <3>3 DEF Follows
      <4> HIDE DEF n
      <4> QED
        BY <2>1, <3>1, <4>1
    <3> QED
      BY <3>2, <3>3
  <2>2. ~(p < q) /\ ~(q < p)
    BY <1>4, <2>1
  <2> QED
    BY <1>3, <2>2
<1>5. \A p \in List : memory[p].next # 0
  BY <1>3, Measures DEF Follows
<1>6. ASSUME NEW p \in Places, blocks[p] # {}
      PROVE  /\ Cardinality(blocks[p]) = 1 /\ p - 1 \in List
             /\ \A s \in blocks[p] : memory[p - 1].size \in s .. s + HeaderWords - 1
  <2>1. PICK s \in Sizes : /\ blocks[p] = {s} /\ p - 1 \in List
                           /\ memory[p - 1].size \in s .. s + HeaderWords - 1
    BY <1>2, <1>6 DEF Sound
  <2> QED
    BY <2>1, FS_Singleton
<1> QED
  BY <1>2, <1>4, <1>5, <1>6 DEF Sound

\* The parts of the invariant hold in every state of the heap.
THEOREM HeapInvariance == Spec => []HeapInv
BY HeapInit, HeapNext, PTL DEF Spec

\* While nothing has torn it, the heap's list goes from the first header to the
\* last, which is free; a block that is held is the only one at its place, its
\* header on the list, in use and of its size; and malloc reads no NULL.
THEOREM ListStaysWhole == Spec => []ListWhole
<1> QED
  BY HeapInvariance, HeapPromise, PTL

\* While nothing has torn the list, every turn of malloc's loop but the last one
\* comes nearer to its end (mem.c:66-123): it goes on to a header that lies
\* further back, and not behind the last, or the last block gets a page of those
\* that grow_heap still allows.
MallocAdvances ==
  [][pc = "malloc" /\ pc' = "malloc" /\ Whole =>
       \/ cur_alloc < cur_alloc' /\ cur_alloc' <= cur_heap.last /\ UNCHANGED cur_heap
       \/ /\ cur_alloc' = cur_alloc /\ memory[cur_alloc].size < memory'[cur_alloc].size
          /\ cur_heap.end < cur_heap'.end /\ cur_heap'.end * 4 < HeapPages]_vars

\* On a list that is whole, a header that is in use is followed by one further back.
LEMMA WalksOn ==
  ASSUME HeapInv, WalkOn, Whole
  PROVE  cur_alloc < cur_alloc' /\ cur_alloc' <= cur_heap.last
<1> DEFINE S == ListOf(memory)
           n == memory[cur_alloc].next
<1>1. Sound(memory, S, cur_heap.last, blocks) /\ pc # "halted"
  BY DEF HeapInv, Whole
<1>2. cur_alloc \in S /\ pc = "malloc"
  BY DEF HeapInv, Walking, WalkOn
<1>3. n # NULL /\ cur_alloc' = n
  <2>1. pc' # "halted"
    BY WalkOnInv DEF HeapInv, WalkOn, Whole
  <2> QED
    BY <2>1 DEF WalkOn, Cur
<1> HIDE DEF S
<1>4. /\ cur_heap.last \in S /\ memory[cur_heap.last].next = NULL /\ S \subseteq Nat
      /\ \A p \in S : Follows(memory, S, p)
  BY <1>1, Measures DEF Sound, Chain
<1>5. n \in S /\ cur_alloc < n
  BY <1>2, <1>3, <1>4 DEF Follows
<1>6. n <= cur_heap.last
  BY <1>4, <1>5 DEF Follows
<1> QED
  BY <1>3, <1>5, <1>6

\* On a whole list malloc's loop comes nearer to its end with every turn, for
\* every size of heap and however the blocks lie: headers only further back, and
\* no more pages than grow_heap allows.
THEOREM MallocGoesOn == Spec => MallocAdvances
<1> DEFINE Advance == pc = "malloc" /\ pc' = "malloc" /\ Whole =>
             \/ cur_alloc < cur_alloc' /\ cur_alloc' <= cur_heap.last /\ UNCHANGED cur_heap
             \/ /\ cur_alloc' = cur_alloc /\ memory[cur_alloc].size < memory'[cur_alloc].size
                /\ cur_heap.end < cur_heap'.end /\ cur_heap'.end * 4 < HeapPages
<1>1. HeapInv /\ [Next]_vars => [Advance]_vars
  <2> SUFFICES ASSUME HeapInv, Next, pc = "malloc", pc' = "malloc", Whole PROVE Advance
    OBVIOUS
  <2>1. WalkOn \/ Enlarge
    BY DEF Next, MallocStep, HandOut, Divide, Split, GiveUp, Return, ReturnNULL,
      Malloc, Free, Clear, Keep, SetBack
  <2>2. CASE WalkOn
    <3>1. UNCHANGED cur_heap
      BY <2>2 DEF WalkOn
    <3> QED
      BY <2>2, <3>1, WalksOn
  <2>3. CASE Enlarge
    <3>1. /\ cur_alloc \in Places /\ memory \in Headers /\ cur_heap \in Heaps
          /\ PageWords \in Nat /\ PageWords > 0
      BY Types, HeapAssumption DEF HeapInv, HeaderWords
    <3>2. /\ cur_alloc' = cur_alloc /\ cur_heap' = Grown(cur_heap) /\ Grown(cur_heap).end * 4 < HeapPages
          /\ memory' = [memory EXCEPT ![cur_alloc].size = @ + PageWords]
      BY <2>3 DEF Enlarge, GrowWorks
    <3>3. cur_heap.end < Grown(cur_heap).end
      BY <3>1 DEF Grown, Heaps
    <3>4. memory'[cur_alloc].size = memory[cur_alloc].size + PageWords /\ memory[cur_alloc].size \in Nat
      BY <3>1, <3>2 DEF Headers
    <3> QED
      BY <3>1, <3>2, <3>3, <3>4
  <2> QED
    BY <2>1, <2>2, <2>3
<1> QED
  BY <1>1, HeapInvariance, PTL DEF Spec, MallocAdvances
=============================================================================

---------------------------- MODULE MemoryProofs ----------------------------
(***************************************************************************)
(* Proofs about PageManager, for every size of memory, of the tables and   *)
(* of the requests, and every set of reserved frames; and then about       *)
(* AddressSpaces, for every size of the copy and any number of misuses.    *)
(*                                                                         *)
(* The page manager: every operation is a MapAddrs onto frames that        *)
(* LowestFree returned, an UnmapAll of pages whose frames are the pool's,  *)
(* or one after the other.  Two lemmas say that both preserve the relation *)
(* between the tables and the bitmap; the invariance proof then follows    *)
(* the actions.                                                            *)
(***************************************************************************)
EXTENDS AddressSpaces, FiniteSetTheorems, SequenceTheorems, TLAPS

\* An absent entry has address 0: unmap_vaddr clears it.
Zeroed(t) == \A v \in Pages : ~t[v].present => t[v].address = 0

\* The relation between tables t and bitmap u that every call keeps.
Sound(t, u) ==
  /\ t \in [Pages -> Entry]
  /\ u \subseteq Frames
  /\ Zeroed(t)
  /\ Exclusive(t)
  /\ PoolMapped(t) \subseteq u
  /\ Reserved \ {0} \subseteq u

\* The same, both ways: what Accounted promises.
Balanced(t, u) == u \cap Pool = PoolMapped(t)

\* Pages that a free may reach never map a reserved frame.
OwnsPool(t, v) == t[v].address \in Pool \cup {0}
Freeable ==
  \A v \in Pages : v \in held \/ kernel_tables[v].user => OwnsPool(kernel_tables, v)

Inv ==
  /\ TypeOK
  /\ Sound(kernel_tables, pmem_used)
  /\ Freeable
  /\ HeldMapped
  /\ Accounted

----------------------------------------------------------------------------
\* What LowestFree returns: a sequence without repetition of free frames.
LEMMA LowestFreeShape ==
  ASSUME NEW u, NEW n \in Nat, NEW fs \in LowestFree(u, n)
  PROVE  /\ fs \in Seq(FreeFrames(u))
         /\ Len(fs) \in 0 .. n
         /\ DOMAIN fs = 1 .. Len(fs)
         /\ \A i \in DOMAIN fs : fs[i] \in FreeFrames(u)
         /\ \A i, j \in DOMAIN fs : fs[i] = fs[j] => i = j
<1>1. PICK m \in 0 .. n : fs \in [1 .. m -> FreeFrames(u)]
  BY DEF LowestFree
<1>2. fs \in [1 .. m -> FreeFrames(u)] /\ m \in Nat
  BY <1>1
<1>3. fs \in Seq(FreeFrames(u))
  BY <1>2, IsASeq
<1>4. DOMAIN fs = 1 .. m
  BY <1>1
<1>5. Len(fs) \in Nat /\ DOMAIN fs = 1 .. Len(fs)
  BY <1>3, LenProperties
<1>6. Len(fs) = m
  BY <1>2, <1>4, <1>5, SMT
<1>7. \A i, j \in DOMAIN fs : fs[i] = fs[j] => i = j
  <2> TAKE i, j \in DOMAIN fs
  <2>1. fs[i] \in Int /\ fs[j] \in Int
    BY <1>1, <1>4, SizesAssumption DEF FreeFrames
  <2>2. i < j => fs[i] < fs[j]
    BY DEF LowestFree
  <2>3. j < i => fs[j] < fs[i]
    BY DEF LowestFree
  <2> QED
    BY <2>1, <2>2, <2>3, <1>4, <1>2, SMT
<1> QED
  BY <1>1, <1>3, <1>4, <1>5, <1>6, <1>7, SMT

\* While reserved frames stay claimed, these are frames of the pool.
LEMMA FreeInPool ==
  ASSUME NEW u, Reserved \ {0} \subseteq u
  PROVE  FreeFrames(u) \subseteq Pool /\ 0 \notin FreeFrames(u)
BY SizesAssumption, ReservedAssumption DEF FreeFrames, Pool, Frames

LEMMA LowestFreeFacts ==
  ASSUME NEW u, NEW n \in Nat, NEW fs \in LowestFree(u, n),
         Reserved \ {0} \subseteq u
  PROVE  /\ fs \in Seq(Pool)
         /\ Len(fs) \in 0 .. n
         /\ DOMAIN fs = 1 .. Len(fs)
         /\ \A i \in DOMAIN fs : fs[i] \in Pool /\ fs[i] \notin u /\ fs[i] # 0
         /\ \A i, j \in DOMAIN fs : fs[i] = fs[j] => i = j
<1>1. \A f \in FreeFrames(u) : f \in Pool /\ f \notin u /\ f # 0
  BY FreeInPool DEF FreeFrames
<1>2. fs \in Seq(Pool)
  <2>1. fs \in [1 .. Len(fs) -> Pool] /\ Len(fs) \in Nat
    BY <1>1, LowestFreeShape
  <2> QED
    BY <2>1, IsASeq
<1> QED
  BY <1>1, <1>2, LowestFreeShape

\* No page is mapped twice: the pages of a run have different slots.
LEMMA SlotInjective ==
  ASSUME NEW start \in Pages, NEW v \in Pages, NEW w \in Pages,
         Slot(v, start) = Slot(w, start)
  PROVE  v = w
BY SizesAssumption DEF Slot, Pages

\* Every slot up to the size of the tables is some page's.
LEMMA SlotOnto ==
  ASSUME NEW start \in Pages, NEW i \in 1 .. NPages
  PROVE  \E v \in Pages : Slot(v, start) = i
<1>1. CASE start + i - 1 < NPages
  <2>1. start + i - 1 \in Pages /\ Slot(start + i - 1, start) = i
    BY <1>1, SizesAssumption DEF Slot, Pages
  <2> QED
    BY <2>1
<1>2. CASE ~(start + i - 1 < NPages)
  <2>1. start + i - 1 - NPages \in Pages /\ Slot(start + i - 1 - NPages, start) = i
    BY <1>2, SizesAssumption DEF Slot, Pages
  <2> QED
    BY <2>1
<1> QED
  BY <1>1, <1>2

----------------------------------------------------------------------------
\* map_addr onto lowest free frames keeps tables and bitmap sound, whatever
\* the pages mapped before.
LEMMA MapSound ==
  ASSUME NEW t, NEW u, Sound(t, u), NEW start \in Pages,
         NEW n \in Nat, NEW fs \in LowestFree(u, n)
  PROVE  Sound(MapAddrs(t, start, fs), ClaimAll(u, fs))
<1> DEFINE t2 == MapAddrs(t, start, fs)
           u2 == ClaimAll(u, fs)
           new(v) == Slot(v, start) \in DOMAIN fs
<1>1. /\ DOMAIN fs \subseteq Nat
      /\ \A i \in DOMAIN fs : fs[i] \in Pool /\ fs[i] \notin u /\ fs[i] # 0
      /\ \A i, j \in DOMAIN fs : fs[i] = fs[j] => i = j
  <2>1. Reserved \ {0} \subseteq u
    BY DEF Sound
  <2> QED
    BY <2>1, LowestFreeFacts
<1>2. /\ t \in [Pages -> Entry] /\ u \subseteq Frames
      /\ Zeroed(t) /\ Exclusive(t) /\ PoolMapped(t) \subseteq u
      /\ Reserved \ {0} \subseteq u
  BY DEF Sound
<1>3. \A v \in Pages :
        /\ new(v) => t2[v] = [present |-> TRUE, address |-> fs[Slot(v, start)],
                              user |-> t[v].user]
        /\ ~new(v) => t2[v] = t[v]
  BY DEF MapAddrs
<1>t. t2 = [v \in Pages |-> t2[v]]
  BY DEF MapAddrs
<1>4. \A v \in Pages :
        /\ new(v) => t2[v].present /\ t2[v].address = fs[Slot(v, start)]
        /\ ~new(v) => t2[v].present = t[v].present /\ t2[v].address = t[v].address
  BY DEF MapAddrs
<1> HIDE DEF t2
<1>5. t2 \in [Pages -> Entry]
  <2>2. ASSUME NEW v \in Pages PROVE t2[v] \in Entry
    <3>1. t[v] \in Entry
      BY <1>2
    <3>2. CASE new(v)
      <4>1. fs[Slot(v, start)] \in Frames
        BY <1>1, <3>2 DEF Pool
      <4>2. t[v].user \in BOOLEAN
        BY <3>1 DEF Entry
      <4>3. t2[v] = [present |-> TRUE, address |-> fs[Slot(v, start)], user |-> t[v].user]
        BY <1>3, <3>2
      <4> HIDE DEF new
      <4> QED
        BY <4>1, <4>2, <4>3 DEF Entry
    <3>3. CASE ~new(v)
      BY <1>3, <3>1, <3>3
    <3> QED
      BY <3>2, <3>3
  <2> QED
    BY <1>t, <2>2
<1>6. u2 \subseteq Frames
  BY <1>1, <1>2 DEF ClaimAll, Pool
<1>7. Zeroed(t2)
  BY <1>2, <1>4 DEF Zeroed
<1>8. Exclusive(t2)
  <2> SUFFICES ASSUME NEW v \in Pages, NEW w \in Pages, t2[v].present, t2[w].present,
                      t2[v].address = t2[w].address, t2[v].address \in Pool
               PROVE  v = w
    BY DEF Exclusive, Mapped
  <2>0. ASSUME NEW x \in Pages, ~new(x), t2[x].present, t2[x].address \in Pool
        PROVE  t2[x].address \in u
    BY <2>0, <1>2, <1>4 DEF PoolMapped, Mapped
  <2>1. CASE new(v) /\ new(w)
    <3>1. Slot(v, start) = Slot(w, start)
      BY <1>1, <1>4, <2>1
    <3> QED
      BY <3>1, SlotInjective
  <2>2. CASE new(v) /\ ~new(w)
    BY <1>1, <1>4, <2>0, <2>2
  <2>3. CASE ~new(v) /\ new(w)
    BY <1>1, <1>4, <2>0, <2>3
  <2>4. CASE ~new(v) /\ ~new(w)
    BY <1>2, <1>4, <2>4 DEF Exclusive, Mapped
  <2> QED
    BY <2>1, <2>2, <2>3, <2>4
<1>9. PoolMapped(t2) \subseteq u2
  <2> SUFFICES ASSUME NEW v \in Pages, t2[v].present, t2[v].address \in Pool
               PROVE  t2[v].address \in u2
    BY DEF PoolMapped, Mapped
  <2>1. CASE new(v)
    BY <1>4, <2>1 DEF ClaimAll
  <2>2. CASE ~new(v)
    BY <1>2, <1>4, <2>2 DEF ClaimAll, PoolMapped, Mapped
  <2> QED
    BY <2>1, <2>2
<1>10. Reserved \ {0} \subseteq u2
  BY <1>2 DEF ClaimAll
<1> QED
  BY <1>5, <1>6, <1>7, <1>8, <1>9, <1>10 DEF Sound, t2

\* Over absent pages it also keeps the balance.
LEMMA MapBalanced ==
  ASSUME NEW t, NEW u, Sound(t, u), Balanced(t, u), NEW start \in Pages,
         NEW n \in Nat, NEW fs \in LowestFree(u, n), Len(fs) <= NPages,
         \A v \in Run(start, Len(fs)) : ~t[v].present
  PROVE  Balanced(MapAddrs(t, start, fs), ClaimAll(u, fs))
<1> DEFINE t2 == MapAddrs(t, start, fs)
           new(v) == Slot(v, start) \in DOMAIN fs
<1>1. /\ DOMAIN fs = 1 .. Len(fs) /\ Len(fs) \in Nat
      /\ \A i \in DOMAIN fs : fs[i] \in Pool
  <2>1. Reserved \ {0} \subseteq u
    BY DEF Sound
  <2> QED
    BY <2>1, LowestFreeFacts
<1>2. \A v \in Pages :
        /\ new(v) => t2[v].present /\ t2[v].address = fs[Slot(v, start)]
        /\ ~new(v) => t2[v].present = t[v].present /\ t2[v].address = t[v].address
  BY DEF MapAddrs
<1>3. \A v \in Pages : new(v) => ~t[v].present
  BY <1>1 DEF Run
<1>4. \A i \in DOMAIN fs : \E v \in Pages : Slot(v, start) = i
  BY <1>1, SlotOnto, SizesAssumption
<1> HIDE DEF t2
<1>5. ASSUME NEW f \in ClaimAll(u, fs), f \in Pool PROVE f \in PoolMapped(t2)
  <2>1. CASE f \in u
    <3>1. PICK v \in Pages : t[v].present /\ t[v].address = f
      BY <1>5, <2>1 DEF Balanced, PoolMapped, Mapped
    <3>2. ~new(v)
      BY <1>3, <3>1
    <3> QED
      BY <1>2, <1>5, <3>1, <3>2 DEF PoolMapped, Mapped
  <2>2. CASE f \notin u
    <3>1. PICK i \in DOMAIN fs : fs[i] = f
      BY <1>5, <2>2 DEF ClaimAll
    <3>2. PICK v \in Pages : Slot(v, start) = i
      BY <1>4
    <3> QED
      BY <1>2, <1>5, <3>1, <3>2 DEF PoolMapped, Mapped
  <2> QED
    BY <2>1, <2>2
<1>6. PoolMapped(t2) \subseteq ClaimAll(u, fs)
  BY MapSound DEF Sound, t2
<1>7. PoolMapped(t2) \subseteq Pool
  BY DEF PoolMapped
<1> QED
  BY <1>5, <1>6, <1>7 DEF Balanced, t2

----------------------------------------------------------------------------
\* unmap_vaddr on pages that map frames of the pool, or none, keeps tables and
\* bitmap sound, and balanced.
LEMMA UnmapSound ==
  ASSUME NEW t, NEW u, Sound(t, u), NEW S \in SUBSET Pages,
         \A v \in S : OwnsPool(t, v)
  PROVE  /\ Sound(UnmapAll(t, S), ReleaseAll(u, t, S))
         /\ Balanced(t, u) => Balanced(UnmapAll(t, S), ReleaseAll(u, t, S))
<1> DEFINE t2 == UnmapAll(t, S)
           u2 == ReleaseAll(u, t, S)
<1>1. /\ t \in [Pages -> Entry] /\ u \subseteq Frames
      /\ Zeroed(t) /\ Exclusive(t) /\ PoolMapped(t) \subseteq u
      /\ Reserved \ {0} \subseteq u
  BY DEF Sound
<1>2. 0 \in Frames /\ 0 \notin Pool
  BY SizesAssumption, ReservedAssumption DEF Pool, Frames
<1>3. \A v \in Pages :
        /\ v \in S => ~t2[v].present /\ t2[v].address = 0
        /\ v \notin S => t2[v].present = t[v].present /\ t2[v].address = t[v].address
  BY DEF UnmapAll
<1>4. t2 \in [Pages -> Entry]
  BY <1>1, <1>2 DEF UnmapAll, Entry
<1> HIDE DEF t2
<1>5. Zeroed(t2)
  BY <1>1, <1>3 DEF Zeroed
<1>6. Exclusive(t2)
  BY <1>1, <1>3 DEF Exclusive, Mapped
\* A frame of the pool behind a page outside S is behind no page of S.
<1>7. ASSUME NEW v \in Pages \ S, t[v].present, t[v].address \in Pool
      PROVE  t[v].address \notin {t[w].address : w \in S}
  <2> SUFFICES ASSUME NEW w \in S, t[w].address = t[v].address PROVE FALSE
    OBVIOUS
  <2>1. t[w].present
    BY <1>1, <1>2, <1>7 DEF Zeroed
  <2> QED
    BY <1>1, <1>7, <2>1 DEF Exclusive, Mapped
<1>8. PoolMapped(t2) \subseteq u2
  <2> SUFFICES ASSUME NEW v \in Pages, t2[v].present, t2[v].address \in Pool
               PROVE  t2[v].address \in u2
    BY DEF PoolMapped, Mapped
  <2>1. v \notin S /\ t[v].present /\ t2[v].address = t[v].address
    BY <1>3
  <2>2. t[v].address \in u
    BY <1>1, <2>1 DEF PoolMapped, Mapped
  <2> QED
    BY <1>7, <2>1, <2>2 DEF ReleaseAll
<1>9. Reserved \ {0} \subseteq u2
  BY <1>1 DEF ReleaseAll, OwnsPool, Pool
<1>10. u2 \subseteq Frames
  BY <1>1 DEF ReleaseAll
<1>11. ASSUME Balanced(t, u) PROVE Balanced(t2, u2)
  <2>1. ASSUME NEW f \in u2, f \in Pool PROVE f \in PoolMapped(t2)
    <3>1. PICK v \in Pages : t[v].present /\ t[v].address = f
      BY <1>11, <2>1 DEF Balanced, PoolMapped, Mapped, ReleaseAll
    <3>2. v \notin S
      BY <2>1, <3>1 DEF ReleaseAll
    <3> QED
      BY <1>3, <2>1, <3>1, <3>2 DEF PoolMapped, Mapped
  <2>2. PoolMapped(t2) \subseteq Pool
    BY DEF PoolMapped
  <2> QED
    BY <1>8, <2>1, <2>2 DEF Balanced
<1> QED
  BY <1>1, <1>4, <1>5, <1>6, <1>8, <1>9, <1>10, <1>11 DEF Sound, t2

----------------------------------------------------------------------------
\* What alloc_page finds: a start inside the tables, lowest free frames, and,
\* unless the block wraps, only absent pages to map them on.
LEMMA AllocFacts ==
  ASSUME NEW t, NEW u, NEW n \in 1 .. MaxPages,
         NEW o \in AllocOutcomes(t, u, n)
  PROVE  /\ o.start \in Pages
         /\ o.frames \in LowestFree(u, n) \/ o.frames = <<>>
         /\ Len(o.frames) \in 0 .. n
         /\ ~Wraps(o) => \A v \in Run(o.start, Len(o.frames)) : ~t[v].present
         /\ o.fault => o.frames = <<>>
<1> DEFINE starts == IF Fits(t, n) # {}
                     THEN {i \in Fits(t, n) : \A j \in Fits(t, n) : i <= j}
                     ELSE Tails(t, n)
<1>0. n \in Nat /\ n <= NPages
  BY SizesAssumption
<1>1. CASE o \in [start : starts, frames : LowestFree(u, n), fault : {FALSE}]
  <2>1. o.start \in starts /\ o.frames \in LowestFree(u, n) /\ o.fault = FALSE
    BY <1>1
  <2>2. o.start \in KernelPages /\ Gap(t, o.start, n)
    BY <2>1 DEF Fits, Tails
  <2>3. o.start \in Pages
    BY <2>2, SizesAssumption DEF KernelPages, Pages
  <2>4. Len(o.frames) \in 0 .. n
    BY <1>0, <2>1, LowestFreeShape
  <2>5. ASSUME ~Wraps(o), NEW v \in Run(o.start, Len(o.frames)) PROVE ~t[v].present
    <3>1. v \in o.start .. NPages - 1 /\ v < o.start + n
      BY <1>0, <2>3, <2>4, <2>5, SizesAssumption DEF Run, Slot, Wraps, Pages
    <3> QED
      BY <2>2, <3>1 DEF Gap
  <2> QED
    BY <2>1, <2>3, <2>4, <2>5
<1>2. CASE o \in [start : {i \in {0} : Fits(t, n) = {}}, frames : {<<>>},
                  fault : {b \in BOOLEAN : b => Tails(t, n) # {}}]
  <2>1. o.start = 0 /\ o.frames = <<>>
    BY <1>2
  <2>2. 0 \in Pages
    BY SizesAssumption DEF Pages
  <2>3. Len(o.frames) = 0
    BY <2>1
  <2>4. Run(o.start, 0) = {}
    BY <2>1, <2>2, SizesAssumption DEF Run
  <2> QED
    BY <2>1, <2>2, <2>3, <2>4, <1>0
<1> QED
  BY <1>1, <1>2 DEF AllocOutcomes

\* The empty sequence maps and claims nothing.
LEMMA MapNothing ==
  ASSUME NEW t \in [Pages -> Entry], NEW u, NEW start
  PROVE  MapAddrs(t, start, <<>>) = t /\ ClaimAll(u, <<>>) = u
BY DEF MapAddrs, ClaimAll

\* What mapping does to each page.
LEMMA MapEffect ==
  ASSUME NEW t, NEW u, Sound(t, u), NEW start \in Pages, NEW n \in Nat, NEW fs,
         fs \in LowestFree(u, n) \/ fs = <<>>
  PROVE  LET t2 == MapAddrs(t, start, fs)
         IN  \A v \in Pages :
               /\ t2[v].user = t[v].user
               /\ v \in Run(start, Len(fs)) => t2[v].present /\ t2[v].address \in Pool
               /\ v \notin Run(start, Len(fs)) => /\ t2[v].present = t[v].present
                                                 /\ t2[v].address = t[v].address
<1>1. DOMAIN fs = 1 .. Len(fs) /\ \A i \in DOMAIN fs : fs[i] \in Pool
  <2>1. CASE fs \in LowestFree(u, n)
    <3>1. Reserved \ {0} \subseteq u
      BY DEF Sound
    <3> QED
      BY <2>1, <3>1, LowestFreeFacts
  <2>2. CASE fs = <<>>
    BY <2>2
  <2> QED
    BY <2>1, <2>2
<1> QED
  BY <1>1 DEF MapAddrs, Run

\* alloc_page as a whole, on its way to any result.
LEMMA AllocSound ==
  ASSUME NEW t, NEW u, Sound(t, u), NEW n \in 1 .. MaxPages,
         NEW o \in AllocOutcomes(t, u, n)
  PROVE  LET t2 == MapAddrs(t, o.start, o.frames)
             u2 == ClaimAll(u, o.frames)
         IN  /\ Sound(t2, u2)
             /\ ~Wraps(o) /\ Balanced(t, u) => Balanced(t2, u2)
<1>1. n \in Nat /\ n <= NPages
  BY SizesAssumption
<1>2. CASE o.frames \in LowestFree(u, n)
  <2>1. /\ o.start \in Pages /\ Len(o.frames) <= NPages
        /\ ~Wraps(o) => \A v \in Run(o.start, Len(o.frames)) : ~t[v].present
    <3>1. Len(o.frames) \in 0 .. n
      BY AllocFacts
    <3>2. /\ o.start \in Pages
          /\ ~Wraps(o) => \A v \in Run(o.start, Len(o.frames)) : ~t[v].present
      BY AllocFacts
    <3> QED
      BY <1>1, <3>1, <3>2, SizesAssumption
  <2>2. Sound(MapAddrs(t, o.start, o.frames), ClaimAll(u, o.frames))
    BY <1>1, <1>2, <2>1, MapSound
  <2>3. ASSUME ~Wraps(o), Balanced(t, u)
        PROVE  Balanced(MapAddrs(t, o.start, o.frames), ClaimAll(u, o.frames))
    BY <1>1, <1>2, <2>1, <2>3, MapBalanced
  <2> QED
    BY <2>2, <2>3
<1>3. CASE o.frames = <<>>
  BY <1>3, MapNothing DEF Sound
<1> QED
  BY <1>2, <1>3, AllocFacts

----------------------------------------------------------------------------
LEMMA InitInv == Init => Inv
<1> SUFFICES ASSUME Init PROVE Inv
  OBVIOUS
<1>1. 0 \in Frames /\ Reserved \subseteq Frames /\ 0 \in Reserved
  BY SizesAssumption, ReservedAssumption DEF Frames
<1>2. \A v \in Pages : kernel_tables[v].address \in Reserved /\ ~kernel_tables[v].user
  BY <1>1, BootMapAssumption DEF Init
<1>z. \A v \in Pages : ~kernel_tables[v].present => kernel_tables[v].address = 0
  BY DEF Init
<1>b. \A v \in DOMAIN BootMap : BootMap[v] \in Frames
  BY <1>1, BootMapAssumption
<1>3. kernel_tables \in [Pages -> Entry]
  <2>1. kernel_tables = [v \in Pages |-> kernel_tables[v]]
    BY DEF Init
  <2>2. ASSUME NEW v \in Pages PROVE kernel_tables[v] \in Entry
    <3>1. CASE v \in DOMAIN BootMap
      <4>1. kernel_tables[v] = [present |-> TRUE, address |-> BootMap[v], user |-> FALSE]
        BY <3>1 DEF Init
      <4> QED
        BY <1>b, <3>1, <4>1 DEF Entry
    <3>2. CASE v \notin DOMAIN BootMap
      <4>1. kernel_tables[v] = [present |-> FALSE, address |-> 0, user |-> FALSE]
        BY <3>2 DEF Init
      <4> QED
        BY <1>1, <4>1 DEF Entry
    <3> QED
      BY <3>1, <3>2
  <2> QED
    BY <2>1, <2>2
<1>4. TypeOK
  BY <1>1, <1>3 DEF Init, TypeOK
<1>5. PoolMapped(kernel_tables) = {}
  <2> SUFFICES ASSUME NEW v \in Pages, kernel_tables[v].address \in Pool PROVE FALSE
    BY DEF PoolMapped, Mapped
  <2> QED
    BY <1>2 DEF Pool
<1>6. Sound(kernel_tables, pmem_used)
  <2>1. pmem_used = Reserved
    BY DEF Init
  <2>2. Zeroed(kernel_tables)
    BY <1>z DEF Zeroed
  <2>3. Exclusive(kernel_tables)
    BY <1>2 DEF Exclusive, Mapped, Pool
  <2> QED
    BY <1>1, <1>3, <1>5, <2>1, <2>2, <2>3 DEF Sound
<1>7. Freeable
  BY <1>2 DEF Init, Freeable
<1>8. HeldMapped /\ Accounted
  BY <1>5 DEF Init, HeldMapped, Accounted, Pool
<1> QED
  BY <1>4, <1>6, <1>7, <1>8 DEF Inv

----------------------------------------------------------------------------
\* A call that maps the outcome of alloc_page and gives the caller the block,
\* or nothing: alloc_page, calloc_page and a realloc_page that faults.
LEMMA AllocateInv ==
  ASSUME Inv, NEW n \in 1 .. MaxPages,
         NEW o \in AllocOutcomes(kernel_tables, pmem_used, n),
         Allocate(o),
         held' = held \/ held' = held \cup Block(o, n),
         lent' = lent, halted' \in BOOLEAN
  PROVE  Inv'
<1> DEFINE new == Run(o.start, Len(o.frames))
<1>1. Sound(kernel_tables, pmem_used) /\ TypeOK /\ Freeable /\ HeldMapped /\ Accounted
  BY DEF Inv
<1>2. Sound(kernel_tables', pmem_used')
  BY <1>1, AllocSound DEF Allocate
<1>3. \A v \in Pages :
        /\ kernel_tables'[v].user = kernel_tables[v].user
        /\ v \in new => kernel_tables'[v].present /\ kernel_tables'[v].address \in Pool
        /\ v \notin new => /\ kernel_tables'[v].present = kernel_tables[v].present
                          /\ kernel_tables'[v].address = kernel_tables[v].address
  <2>1. n \in Nat
    BY SizesAssumption
  <2>2. o.start \in Pages /\ (o.frames \in LowestFree(pmem_used, n) \/ o.frames = <<>>)
    BY <1>1, AllocFacts
  <2> QED
    BY <1>1, <2>1, <2>2, MapEffect DEF Allocate
<1>4. Block(o, n) \subseteq new
  BY DEF Block, Succeeds
<1>5. held \subseteq held' /\ held' \subseteq held \cup new /\ new \subseteq Pages
  BY <1>4 DEF Run
<1>6. breach \subseteq breach' /\ breach' \subseteq Breaches
      /\ (Wraps(o) => "past_end" \in breach')
  BY <1>1 DEF Allocate, BreachIf, TypeOK, Breaches
<1> HIDE DEF new
<1>7. TypeOK'
  BY <1>1, <1>2, <1>5, <1>6 DEF TypeOK, Sound
<1>8. Freeable'
  BY <1>1, <1>3, <1>5 DEF Freeable, OwnsPool
<1>9. HeldMapped'
  <2> SUFFICES ASSUME breach' = {}, NEW v \in held'
               PROVE  kernel_tables'[v].present /\ kernel_tables'[v].address \in Pool
    BY DEF HeldMapped
  <2>1. breach = {} /\ v \in Pages
    BY <1>6, <1>7 DEF TypeOK
  <2>2. CASE v \in new
    BY <1>3, <2>1, <2>2
  <2>3. CASE v \notin new
    <3>1. v \in held
      BY <1>5, <2>3
    <3>2. kernel_tables[v].present /\ kernel_tables[v].address \in Pool
      BY <1>1, <2>1, <3>1 DEF HeldMapped
    <3> QED
      BY <1>3, <2>1, <2>3, <3>2
  <2> QED
    BY <2>2, <2>3
<1>10. Accounted'
  <2> SUFFICES ASSUME "past_end" \notin breach' PROVE Balanced(kernel_tables', pmem_used')
    BY DEF Accounted, Balanced
  <2>1. "past_end" \notin breach /\ ~Wraps(o)
    BY <1>6
  <2>2. Balanced(kernel_tables, pmem_used)
    BY <1>1, <2>1 DEF Accounted, Balanced
  <2> QED
    BY <1>1, <2>1, <2>2, AllocSound DEF Allocate
<1> QED
  BY <1>2, <1>7, <1>8, <1>9, <1>10 DEF Inv

\* A call that unmaps pages of the pool nobody holds afterwards: free_page,
\* a shrinking realloc_page, free_all_user_pages.
LEMMA UnmapInv ==
  ASSUME Inv, NEW S \in SUBSET Pages,
         \A v \in S : OwnsPool(kernel_tables, v),
         kernel_tables' = UnmapAll(kernel_tables, S),
         pmem_used' = ReleaseAll(pmem_used, kernel_tables, S),
         held' \subseteq held, lent' \subseteq held', halted' \in BOOLEAN,
         breach \subseteq breach', breach' \subseteq Breaches,
         breach' = {} => S \cap held' = {}
  PROVE  Inv'
<1>1. Sound(kernel_tables, pmem_used) /\ TypeOK /\ Freeable /\ HeldMapped /\ Accounted
  BY DEF Inv
<1>2. /\ Sound(kernel_tables', pmem_used')
      /\ Balanced(kernel_tables, pmem_used) => Balanced(kernel_tables', pmem_used')
  BY <1>1, UnmapSound
<1>3. \A v \in Pages :
        /\ kernel_tables'[v].user = kernel_tables[v].user
        /\ v \in S => kernel_tables'[v].address = 0
        /\ v \notin S => /\ kernel_tables'[v].present = kernel_tables[v].present
                        /\ kernel_tables'[v].address = kernel_tables[v].address
  BY DEF UnmapAll
<1>4. TypeOK'
  BY <1>1, <1>2 DEF TypeOK, Sound
<1>5. Freeable'
  BY <1>1, <1>3 DEF Freeable, OwnsPool
<1>6. HeldMapped'
  <2> SUFFICES ASSUME breach' = {}, NEW v \in held'
               PROVE  kernel_tables'[v].present /\ kernel_tables'[v].address \in Pool
    BY DEF HeldMapped
  <2>1. breach = {} /\ v \in Pages /\ v \in held /\ v \notin S
    BY <1>4 DEF TypeOK
  <2>2. kernel_tables[v].present /\ kernel_tables[v].address \in Pool
    BY <1>1, <2>1 DEF HeldMapped
  <2> QED
    BY <1>3, <2>1, <2>2
<1>7. Accounted'
  BY <1>1, <1>2 DEF Accounted, Balanced
<1> QED
  BY <1>2, <1>4, <1>5, <1>6, <1>7 DEF Inv

\* A call that maps up to n absent pages from start on and gives the caller G
\* of them: map_page_to and realloc_page in place.
LEMMA MapInv ==
  ASSUME Inv, NEW start \in Pages, NEW n \in 1 .. NPages,
         NEW fs \in LowestFree(pmem_used, n), NEW G \in SUBSET Run(start, n),
         \A v \in Run(start, n) : ~kernel_tables[v].present,
         kernel_tables' = MapAddrs(kernel_tables, start, fs),
         pmem_used' = ClaimAll(pmem_used, fs),
         held' = held \cup G, lent' = lent, halted' \in BOOLEAN,
         breach \subseteq breach', breach' \subseteq Breaches,
         breach' = {} => G \subseteq Run(start, Len(fs))
  PROVE  Inv'
<1> DEFINE new == Run(start, Len(fs))
<1>1. Sound(kernel_tables, pmem_used) /\ TypeOK /\ Freeable /\ HeldMapped /\ Accounted
  BY DEF Inv
<1>2. n \in Nat /\ n <= NPages /\ Len(fs) \in 0 .. n
  <2>1. n \in Nat /\ n <= NPages
    BY SizesAssumption
  <2>2. Reserved \ {0} \subseteq pmem_used
    BY <1>1 DEF Sound
  <2> QED
    BY <2>1, <2>2, LowestFreeFacts
<1>3. new \subseteq Run(start, n) /\ Run(start, n) \subseteq Pages
  BY <1>2 DEF Run
<1>4. Sound(kernel_tables', pmem_used')
  BY <1>1, <1>2, MapSound
<1>5. Balanced(kernel_tables, pmem_used) => Balanced(kernel_tables', pmem_used')
  <2>1. Len(fs) <= NPages /\ \A v \in new : ~kernel_tables[v].present
    BY <1>2, <1>3, SizesAssumption
  <2> QED
    BY <1>1, <1>2, <2>1, MapBalanced
<1>6. \A v \in Pages :
        /\ kernel_tables'[v].user = kernel_tables[v].user
        /\ v \in new => kernel_tables'[v].present /\ kernel_tables'[v].address \in Pool
        /\ v \notin new => /\ kernel_tables'[v].present = kernel_tables[v].present
                          /\ kernel_tables'[v].address = kernel_tables[v].address
  BY <1>1, <1>2, MapEffect
<1> HIDE DEF new
<1>7. TypeOK'
  BY <1>1, <1>3, <1>4 DEF TypeOK, Sound
<1>8. Freeable'
  <2> SUFFICES ASSUME NEW v \in Pages, v \in held' \/ kernel_tables'[v].user
               PROVE  OwnsPool(kernel_tables', v)
    BY DEF Freeable
  <2>1. CASE v \in new
    BY <1>6, <2>1 DEF OwnsPool
  <2>2. CASE v \in G /\ v \notin new
    <3>1. kernel_tables[v].address = 0
      BY <1>1, <2>2 DEF Sound, Zeroed
    <3> QED
      BY <1>6, <2>2, <3>1 DEF OwnsPool
  <2>3. CASE v \notin G /\ v \notin new
    BY <1>1, <1>6, <2>3 DEF Freeable, OwnsPool
  <2> QED
    BY <2>1, <2>2, <2>3
<1>9. HeldMapped'
  <2> SUFFICES ASSUME breach' = {}, NEW v \in held'
               PROVE  kernel_tables'[v].present /\ kernel_tables'[v].address \in Pool
    BY DEF HeldMapped
  <2>1. breach = {} /\ v \in Pages /\ G \subseteq new
    BY <1>7 DEF TypeOK, new
  <2>2. CASE v \in new
    BY <1>6, <2>1, <2>2
  <2>3. CASE v \notin new
    <3>1. v \in held
      BY <2>1, <2>3
    <3>2. kernel_tables[v].present /\ kernel_tables[v].address \in Pool
      BY <1>1, <2>1, <3>1 DEF HeldMapped
    <3> QED
      BY <1>6, <2>1, <2>3, <3>2
  <2> QED
    BY <2>2, <2>3
<1>10. Accounted'
  BY <1>1, <1>5 DEF Accounted, Balanced
<1> QED
  BY <1>4, <1>7, <1>8, <1>9, <1>10 DEF Inv

----------------------------------------------------------------------------
\* A realloc_page that moves the block: alloc_page, then free_page of the old
\* block, which by then may only map frames of the pool.
LEMMA MoveInv ==
  ASSUME Inv, NEW start \in Pages, NEW old \in 1 .. MaxPages, NEW new \in 1 .. MaxPages,
         ReallocArgs(start, old, new), ReallocMove(start, old, new), ~halted
  PROVE  Inv'
<1> DEFINE source == Run(start, old)
           T(o) == MapAddrs(kernel_tables, o.start, o.frames)
           U(o) == ClaimAll(pmem_used, o.frames)
<1>1. Sound(kernel_tables, pmem_used) /\ TypeOK /\ Freeable /\ HeldMapped /\ Accounted
  BY DEF Inv
<1>2. source \subseteq held /\ source \subseteq Pages
  BY DEF ReallocArgs, Run
<1>3. PICK o \in AllocOutcomes(kernel_tables, pmem_used, new) :
        \/ Allocate(o) /\ Halt
        \/ /\ kernel_tables' = UnmapAll(T(o), source)
           /\ pmem_used' = ReleaseAll(U(o), T(o), source)
           /\ held' = (held \ source) \cup Block(o, new)
           /\ lent' = lent \ source
           /\ BreachIf(Wraps(o), "past_end")
           /\ UNCHANGED halted
  BY DEF ReallocMove
<1>4. CASE Allocate(o) /\ Halt
  BY <1>4, AllocateInv DEF Halt
<1>5. CASE /\ kernel_tables' = UnmapAll(T(o), source)
           /\ pmem_used' = ReleaseAll(U(o), T(o), source)
           /\ held' = (held \ source) \cup Block(o, new)
           /\ lent' = lent \ source
           /\ BreachIf(Wraps(o), "past_end")
           /\ UNCHANGED halted
  <2> DEFINE t == T(o)
             u == U(o)
             got == Run(o.start, Len(o.frames))
  <2>1. Sound(t, u) /\ (~Wraps(o) /\ Balanced(kernel_tables, pmem_used) => Balanced(t, u))
    BY <1>1, AllocSound
  <2>2. \A v \in Pages :
          /\ t[v].user = kernel_tables[v].user
          /\ v \in got => t[v].present /\ t[v].address \in Pool
          /\ v \notin got => /\ t[v].present = kernel_tables[v].present
                            /\ t[v].address = kernel_tables[v].address
    <3>1. new \in Nat
      BY SizesAssumption
    <3>2. o.start \in Pages /\ (o.frames \in LowestFree(pmem_used, new) \/ o.frames = <<>>)
      BY <1>1, AllocFacts
    <3> QED
      BY <1>1, <3>1, <3>2, MapEffect
  <2>3. \A v \in source : OwnsPool(t, v)
    BY <1>1, <1>2, <2>2 DEF Freeable, OwnsPool
  <2>4. Block(o, new) \subseteq got /\ got \subseteq Pages
    BY DEF Block, Succeeds, Run
  <2>5. /\ breach \subseteq breach' /\ breach' \subseteq Breaches
        /\ (Wraps(o) => "past_end" \in breach')
    BY <1>1, <1>5 DEF BreachIf, TypeOK, Breaches
  <2>6. ~Wraps(o) => \A v \in got : ~kernel_tables[v].present
    BY <1>1, AllocFacts
  <2> HIDE DEF t, u, got
  <2>7. /\ kernel_tables' = UnmapAll(t, source)
        /\ pmem_used' = ReleaseAll(u, t, source)
    BY <1>5 DEF t, u
  <2>8. /\ Sound(kernel_tables', pmem_used')
        /\ Balanced(t, u) => Balanced(kernel_tables', pmem_used')
    BY <1>2, <2>1, <2>3, <2>7, UnmapSound
  <2>9. \A v \in Pages :
          /\ kernel_tables'[v].user = t[v].user
          /\ v \in source => kernel_tables'[v].address = 0
          /\ v \notin source => /\ kernel_tables'[v].present = t[v].present
                               /\ kernel_tables'[v].address = t[v].address
    BY <2>7 DEF UnmapAll
  <2>10. TypeOK'
    BY <1>1, <1>2, <1>5, <2>4, <2>5, <2>8 DEF TypeOK, Sound
  <2>11. Freeable'
    <3> SUFFICES ASSUME NEW v \in Pages, v \in held' \/ kernel_tables'[v].user
                 PROVE  OwnsPool(kernel_tables', v)
      BY DEF Freeable
    <3>1. CASE v \in source
      BY <2>9, <3>1 DEF OwnsPool
    <3>2. CASE v \notin source /\ v \in got
      BY <2>2, <2>9, <3>2 DEF OwnsPool
    <3>3. CASE v \notin source /\ v \notin got
      BY <1>1, <1>5, <2>2, <2>4, <2>9, <3>3 DEF Freeable, OwnsPool
    <3> QED
      BY <3>1, <3>2, <3>3
  <2>12. HeldMapped'
    <3> SUFFICES ASSUME breach' = {}, NEW v \in held'
                 PROVE  kernel_tables'[v].present /\ kernel_tables'[v].address \in Pool
      BY DEF HeldMapped
    <3>1. breach = {} /\ ~Wraps(o)
      BY <2>5
    <3>2. v \in Pages
      BY <2>10 DEF TypeOK
    <3>3. \A w \in held : kernel_tables[w].present /\ kernel_tables[w].address \in Pool
      BY <1>1, <3>1 DEF HeldMapped
    <3>4. got \cap source = {}
      BY <1>2, <2>6, <3>1, <3>3
    <3>5. CASE v \in got
      BY <2>2, <2>9, <3>2, <3>4, <3>5
    <3>6. CASE v \notin got
      <4>1. v \in held /\ v \notin source
        BY <1>5, <2>4, <3>6
      <4> QED
        BY <2>2, <2>9, <3>2, <3>3, <3>6, <4>1
    <3> QED
      BY <3>5, <3>6
  <2>13. Accounted'
    BY <1>1, <2>1, <2>5, <2>8 DEF Accounted, Balanced
  <2> QED
    BY <2>8, <2>10, <2>11, <2>12, <2>13 DEF Inv
<1> QED
  BY <1>3, <1>4, <1>5

\* Every step preserves the invariant, one case per operation.
LEMMA NextInv == Inv /\ [Next]_vars => Inv'
<1> SUFFICES ASSUME Inv, [Next]_vars PROVE Inv'
  OBVIOUS
<1>1. Sound(kernel_tables, pmem_used) /\ TypeOK /\ Freeable /\ HeldMapped /\ Accounted
  BY DEF Inv
<1>2. ASSUME ~halted, NEW n \in 1 .. MaxPages, alloc_page(n) PROVE Inv'
  <2>1. PICK o \in AllocOutcomes(kernel_tables, pmem_used, n) :
          /\ Allocate(o)
          /\ held' = held \/ held' = held \cup Block(o, n)
          /\ lent' = lent /\ halted' \in BOOLEAN
    BY <1>1, <1>2 DEF alloc_page, Halt, Give, TypeOK
  <2> QED
    BY <2>1, AllocateInv
<1>3. ASSUME ~halted, NEW n \in 1 .. MaxPages, calloc_page(n) PROVE Inv'
  <2>1. PICK o \in AllocOutcomes(kernel_tables, pmem_used, n) :
          /\ Allocate(o)
          /\ held' = held \/ held' = held \cup Block(o, n)
          /\ lent' = lent /\ halted' \in BOOLEAN
    BY <1>1, <1>3 DEF calloc_page, Halt, Give, TypeOK
  <2> QED
    BY <2>1, AllocateInv
<1>4. ASSUME NEW start, NEW n, free_page(start, n) PROVE Inv'
  <2>1. Run(start, n) \subseteq Pages /\ Run(start, n) \subseteq held
    BY <1>4 DEF free_page, Run
  <2>2. \A v \in Run(start, n) : OwnsPool(kernel_tables, v)
    BY <1>1, <2>1 DEF Freeable
  <2>3. /\ held' \subseteq held /\ lent' \subseteq held' /\ halted' \in BOOLEAN
        /\ breach' = breach /\ breach' \subseteq Breaches
        /\ Run(start, n) \cap held' = {}
    BY <1>1, <1>4 DEF free_page, TypeOK
  <2> QED
    BY <1>4, <2>1, <2>2, <2>3, UnmapInv DEF free_page
<1>5. ASSUME NEW v \in Pages, map_page_to(v) PROVE Inv'
  <2>1. PICK fs \in LowestFree(pmem_used, 1) :
          /\ kernel_tables' = MapAddrs(kernel_tables, v, fs)
          /\ pmem_used' = ClaimAll(pmem_used, fs)
          /\ Give(IF fs = <<>> THEN {} ELSE {v})
    BY <1>5 DEF map_page_to
  <2>2. Run(v, 1) = {v}
    BY SizesAssumption DEF Run, Slot, Pages
  <2>3. Len(fs) \in 0 .. 1 /\ (fs # <<>> => Len(fs) = 1)
    <3>1. Reserved \ {0} \subseteq pmem_used
      BY <1>1 DEF Sound
    <3>2. Len(fs) \in 0 .. 1 /\ fs \in Seq(Pool)
      BY <3>1, LowestFreeFacts
    <3>3. Len(fs) = 0 => fs = <<>>
      BY <3>2, EmptySeq
    <3> QED
      BY <3>2, <3>3
  <2>4. 1 \in 1 .. NPages
    BY SizesAssumption
  <2> DEFINE G == IF fs = <<>> THEN {} ELSE {v}
  <2>5. G \in SUBSET Run(v, 1) /\ G \subseteq Run(v, Len(fs))
    BY <2>2, <2>3
  <2>6. /\ held' = held \cup G /\ lent' = lent /\ halted' \in BOOLEAN
        /\ breach' = breach /\ breach' \subseteq Breaches
        /\ \A w \in Run(v, 1) : ~kernel_tables[w].present
    BY <1>1, <1>5, <2>1, <2>2 DEF map_page_to, Give, TypeOK
  <2> HIDE DEF G
  <2> QED
    BY <2>1, <2>4, <2>5, <2>6, MapInv
<1>6. ASSUME NEW v \in Pages, NEW user \in BOOLEAN, mark_user(v, user) PROVE Inv'
  <2>1. \A w \in Pages : /\ kernel_tables'[w].present = kernel_tables[w].present
                         /\ kernel_tables'[w].address = kernel_tables[w].address
                         /\ kernel_tables'[w].user => kernel_tables[w].user \/ w \in held
    BY <1>1, <1>6 DEF mark_user, TypeOK, Entry
  <2>2. kernel_tables' \in [Pages -> Entry]
    BY <1>1, <1>6 DEF mark_user, TypeOK, Entry
  <2>3. UNCHANGED <<pmem_used, halted, held, breach>> /\ lent' \subseteq held'
    BY <1>1, <1>6 DEF mark_user, TypeOK
  <2>4. PoolMapped(kernel_tables') = PoolMapped(kernel_tables)
    BY <2>1 DEF PoolMapped, Mapped
  <2>5. Sound(kernel_tables', pmem_used')
    BY <1>1, <2>1, <2>2, <2>3, <2>4 DEF Sound, Zeroed, Exclusive, Mapped
  <2>6. TypeOK'
    BY <1>1, <2>2, <2>3 DEF TypeOK
  <2>7. Freeable'
    BY <1>1, <2>1, <2>3 DEF Freeable, OwnsPool
  <2>8. HeldMapped'
    BY <1>1, <2>1, <2>3 DEF HeldMapped, TypeOK
  <2>9. Accounted'
    BY <1>1, <2>3, <2>4 DEF Accounted
  <2> QED
    BY <2>5, <2>6, <2>7, <2>8, <2>9 DEF Inv
<1>7. ASSUME ~halted, NEW start \in Pages, NEW old \in 1 .. MaxPages,
             NEW new \in 1 .. MaxPages, realloc_page(start, old, new)
      PROVE  Inv'
  <2>1. CASE ReallocShrink(start, old, new)
    BY <1>4, <2>1 DEF ReallocShrink
  <2>2. CASE ReallocInPlace(start, old, new)
    <3> DEFINE first == start + old
               n == new - old
    <3>1. /\ first \in Pages /\ n \in 1 .. NPages
          /\ Growth(start, old, new) = Run(first, n)
          /\ \A v \in Run(first, n) : ~kernel_tables[v].present
      BY <1>7, <2>2, SizesAssumption
      DEF realloc_page, ReallocArgs, ReallocInPlace, Growth, Pages
    <3>2. PICK fs \in LowestFree(pmem_used, n) :
            /\ kernel_tables' = MapAddrs(kernel_tables, first, fs)
            /\ pmem_used' = ClaimAll(pmem_used, fs)
            /\ Give(Growth(start, old, new))
            /\ BreachIf(Len(fs) < n, "short_grow")
            /\ UNCHANGED <<halted, lent>>
      BY <2>2 DEF ReallocInPlace
    <3> HIDE DEF first, n
    <3>3. Len(fs) \in 0 .. n
      <4>1. Reserved \ {0} \subseteq pmem_used /\ n \in Nat
        BY <1>1, <3>1 DEF Sound
      <4> QED
        BY <4>1, LowestFreeFacts
    <3>4. /\ breach \subseteq breach' /\ breach' \subseteq Breaches
          /\ breach' = {} => Len(fs) = n
      BY <1>1, <3>1, <3>2, <3>3 DEF BreachIf, TypeOK, Breaches
    <3>5. /\ held' = held \cup Run(first, n) /\ lent' = lent /\ halted' \in BOOLEAN
          /\ breach' = {} => Run(first, n) \subseteq Run(first, Len(fs))
      BY <1>1, <3>1, <3>2, <3>4 DEF Give, TypeOK
    <3> QED
      BY <3>1, <3>2, <3>4, <3>5, MapInv
  <2>3. CASE ReallocMove(start, old, new)
    BY <1>7, <2>3, MoveInv DEF realloc_page
  <2> QED
    BY <1>7, <2>1, <2>2, <2>3 DEF realloc_page
<1>8. ASSUME free_all_user_pages PROVE Inv'
  <2> DEFINE S == UserPages(kernel_tables)
  <2>1. S \in SUBSET Pages /\ \A v \in S : OwnsPool(kernel_tables, v)
    BY <1>1 DEF UserPages, Freeable
  <2>2. /\ held' = held \ lent /\ lent' = {} /\ halted' = halted
        /\ kernel_tables' = UnmapAll(kernel_tables, S)
        /\ pmem_used' = ReleaseAll(pmem_used, kernel_tables, S)
        /\ breach' = IF S \cap held' # {} THEN breach \cup {"stale_user"} ELSE breach
    BY <1>8 DEF free_all_user_pages, BreachIf
  <2> HIDE DEF S
  <2>3. /\ breach \subseteq breach' /\ breach' \subseteq Breaches
        /\ breach' = {} => S \cap held' = {}
    BY <1>1, <2>2 DEF TypeOK, Breaches
  <2> QED
    BY <1>1, <2>1, <2>2, <2>3, UnmapInv DEF TypeOK
<1>9. ASSUME UNCHANGED vars PROVE Inv'
  BY <1>1, <1>9 DEF vars, Inv, TypeOK, Freeable, OwnsPool, HeldMapped, Accounted
<1> QED
  BY <1>2, <1>3, <1>4, <1>5, <1>6, <1>7, <1>8, <1>9 DEF Next, Call, Spin

THEOREM Invariance == Spec => []Inv
BY InitInv, NextInv, PTL DEF Spec

\* The variables keep their types, in every instance.
THEOREM TypeCorrect == Spec => []TypeOK
<1>1. Inv => TypeOK
  BY DEF Inv
<1> QED
  BY <1>1, Invariance, PTL

\* No frame of the pool is ever behind two pages or free while mapped.
THEOREM NoFrameShared == Spec => []FramesExclusive
<1>1. Inv => FramesExclusive
  BY DEF Inv, Sound, FramesExclusive
<1> QED
  BY <1>1, Invariance, PTL

\* The three breaches are the only ways a caller loses a page.
THEOREM HoldersKeepPages == Spec => []HeldMapped
<1>1. Inv => HeldMapped
  BY DEF Inv
<1> QED
  BY <1>1, Invariance, PTL

\* The bitmap and the tables agree on the pool until a block wraps.
THEOREM NoFrameLeaks == Spec => []Accounted
<1>1. Inv => Accounted
  BY DEF Inv
<1> QED
  BY <1>1, Invariance, PTL

\* Reserved frames other than frame 0 stay claimed for ever.
THEOREM ReservedNeverFree == Spec => []ReservedKept
<1>1. Inv => ReservedKept
  BY DEF Inv, Sound, ReservedKept
<1> QED
  BY <1>1, Invariance, PTL

\* The bitmap is right about the pool and about what is reserved.
THEOREM BitmapTellsTruth == Spec => []BitmapExact
<1>1. TypeOK /\ Accounted /\ ReservedKept => BitmapExact
  BY DEF BitmapExact
<1> QED
  BY <1>1, TypeCorrect, NoFrameLeaks, ReservedNeverFree, PTL

----------------------------------------------------------------------------
(* Which calls leave a mapped page without a holder.  Two facts the invariant *)
(* does not have are needed: page 0 is absent until a block has wrapped, so   *)
(* that the memcpy of a failed realloc_page faults before it frees the old    *)
(* block, and a lent page has its user bit, so that free_all_user_pages       *)
(* unmaps every page it takes from a holder.                                  *)

ZeroAbsent == "past_end" \notin breach => ~kernel_tables[0].present
LentMarked == \A v \in lent : kernel_tables[v].user

\* When fewer frames are found than asked for there are none left.
LEMMA ShortExhausts ==
  ASSUME NEW u, NEW n, NEW fs \in LowestFree(u, n), Len(fs) # n
  PROVE  FreeFrames(ClaimAll(u, fs)) = {}
BY DEF LowestFree, FreeFrames, ClaimAll

\* What alloc_page maps is the caller's block, or there are no more frames.
LEMMA AllocEffect ==
  ASSUME NEW t, NEW u, Sound(t, u), NEW n \in 1 .. MaxPages,
         NEW o \in AllocOutcomes(t, u, n)
  PROVE  LET t2 == MapAddrs(t, o.start, o.frames)
             got == Run(o.start, Len(o.frames))
         IN  /\ \A v \in Pages :
                  /\ t2[v].user = t[v].user
                  /\ v \notin got => /\ t2[v].present = t[v].present
                                    /\ t2[v].address = t[v].address
             /\ Succeeds(o, n) => Block(o, n) = got
             /\ \/ Succeeds(o, n) \/ got = {}
                \/ FreeFrames(ClaimAll(u, o.frames)) = {}
             /\ ~Wraps(o) => 0 \notin got
<1>1. n \in Nat /\ n <= NPages
  BY SizesAssumption
<1>2. /\ o.start \in Pages
      /\ o.frames \in LowestFree(u, n) \/ o.frames = <<>>
      /\ Len(o.frames) \in 0 .. n
  BY AllocFacts
<1> DEFINE got == Run(o.start, Len(o.frames))
<1>3. \A v \in Pages :
        LET t2 == MapAddrs(t, o.start, o.frames)
        IN  /\ t2[v].user = t[v].user
            /\ v \notin got => /\ t2[v].present = t[v].present
                              /\ t2[v].address = t[v].address
  BY <1>1, <1>2, MapEffect
<1>4. Succeeds(o, n) => Block(o, n) = got
  BY DEF Block, Succeeds
<1>5. \/ Succeeds(o, n) \/ got = {}
      \/ FreeFrames(ClaimAll(u, o.frames)) = {}
  <2>1. CASE o.frames \in LowestFree(u, n)
    BY <2>1, ShortExhausts DEF Succeeds
  <2>2. CASE o.frames = <<>>
    <3>1. Len(o.frames) = 0 /\ 1 .. 0 = {}
      BY <2>2
    <3> QED
      BY <3>1 DEF Run
  <2> QED
    BY <1>2, <2>1, <2>2
<1>6. ~Wraps(o) => 0 \notin got
  <2> SUFFICES ASSUME ~Wraps(o), 0 \in got PROVE FALSE
    OBVIOUS
  <2>1. Slot(0, o.start) \in 1 .. Len(o.frames)
    BY DEF Run
  <2>2. o.start \in 0 .. NPages - 1 /\ Len(o.frames) \in 0 .. n /\ NPages \in Nat
    BY <1>2, SizesAssumption DEF Pages
  <2>3. o.start + Len(o.frames) <= NPages
    BY <1>1, <2>2 DEF Wraps
  <2>4. o.start = 0
    BY <1>1, <2>1, <2>2, <2>3 DEF Slot
  <2>5. o.frames \in LowestFree(u, n) => o.start # 0
    <3>1. 0 \notin KernelPages
      BY SizesAssumption DEF KernelPages
    <3>2. \/ o.start \in KernelPages
          \/ o.frames = <<>>
      BY DEF AllocOutcomes, Fits, Tails
    <3>3. Len(<<>>) = 0 /\ 1 .. 0 = {}
      OBVIOUS
    <3> QED
      BY <2>1, <3>1, <3>2, <3>3
  <2>6. Len(<<>>) = 0 /\ 1 .. 0 = {}
    OBVIOUS
  <2> QED
    BY <1>2, <2>1, <2>4, <2>5, <2>6
<1> QED
  BY <1>3, <1>4, <1>5, <1>6

\* Pages of gone are unmapped; of new, mapped; all others are left alone.
Changed(t, t2, gone, new) ==
  \A v \in Pages : /\ v \in gone => t2[v].address \notin Pool
                   /\ v \notin gone /\ v \notin new =>
                        t2[v].present = t[v].present /\ t2[v].address = t[v].address

LEMMA NoneStranded ==
  ASSUME NEW gone, NEW new, Changed(kernel_tables, kernel_tables', gone, new),
         held \subseteq held' \cup gone, new \subseteq held' \cup gone
  PROVE  Stranded' \subseteq Stranded
BY DEF Stranded, Changed

\* Leaves page 0 alone as well, and every user bit.
LEMMA MarksKept ==
  ASSUME ZeroAbsent, LentMarked, lent \subseteq Pages,
         \A v \in Pages : kernel_tables'[v].user = kernel_tables[v].user,
         lent' \subseteq lent, breach \subseteq breach',
         "past_end" \notin breach' =>
            (kernel_tables'[0].present => kernel_tables[0].present)
  PROVE  (ZeroAbsent /\ LentMarked)'
BY DEF ZeroAbsent, LentMarked

Quiet ==
  \/ Stranded' \subseteq Stranded
  \/ FreeFrames(pmem_used') = {}
  \/ halted'
  \/ "past_end" \in breach'

\* alloc_page and calloc_page.
LEMMA AllocateQuiet ==
  ASSUME Inv, ZeroAbsent, LentMarked, NEW n \in 1 .. MaxPages,
         NEW o \in AllocOutcomes(kernel_tables, pmem_used, n),
         Allocate(o), lent' = lent,
         halted' \/ held' = held \cup Block(o, n)
  PROVE  Quiet /\ (ZeroAbsent /\ LentMarked)'
<1> DEFINE got == Run(o.start, Len(o.frames))
<1>1. Sound(kernel_tables, pmem_used) /\ TypeOK
  BY DEF Inv
<1>2. /\ \A v \in Pages :
           /\ kernel_tables'[v].user = kernel_tables[v].user
           /\ v \notin got => /\ kernel_tables'[v].present = kernel_tables[v].present
                             /\ kernel_tables'[v].address = kernel_tables[v].address
      /\ Succeeds(o, n) => Block(o, n) = got
      /\ Succeeds(o, n) \/ got = {} \/ FreeFrames(pmem_used') = {}
      /\ ~Wraps(o) => 0 \notin got
  <2> DEFINE t2 == MapAddrs(kernel_tables, o.start, o.frames)
             u2 == ClaimAll(pmem_used, o.frames)
  <2>1. kernel_tables' = t2 /\ pmem_used' = u2
    BY DEF Allocate
  <2>2. /\ \A v \in Pages :
             /\ t2[v].user = kernel_tables[v].user
             /\ v \notin got => /\ t2[v].present = kernel_tables[v].present
                               /\ t2[v].address = kernel_tables[v].address
        /\ Succeeds(o, n) => Block(o, n) = got
        /\ Succeeds(o, n) \/ got = {} \/ FreeFrames(u2) = {}
        /\ ~Wraps(o) => 0 \notin got
    BY <1>1, AllocEffect
  <2> HIDE DEF t2, u2, got
  <2> QED
    BY <2>1, <2>2
<1>3. breach \subseteq breach' /\ (Wraps(o) => "past_end" \in breach')
  BY DEF Allocate, BreachIf
<1>4. 0 \in Pages
  BY SizesAssumption DEF Pages
<1> HIDE DEF got
<1>5. (ZeroAbsent /\ LentMarked)'
  <2>1. lent \subseteq Pages
    BY <1>1 DEF TypeOK
  <2> QED
    BY <1>2, <1>3, <1>4, <2>1, MarksKept
<1>6. Quiet
  <2>1. CASE ~halted' /\ (Succeeds(o, n) \/ got = {})
    <3>1. held \subseteq held' /\ got \subseteq held'
      BY <1>2, <2>1
    <3>2. Changed(kernel_tables, kernel_tables', {}, got)
      BY <1>2 DEF Changed
    <3>3. Stranded' \subseteq Stranded
      BY <3>1, <3>2, NoneStranded
    <3> QED
      BY <3>3 DEF Quiet
  <2> QED
    BY <1>2, <2>1 DEF Quiet
<1> QED
  BY <1>5, <1>6

\* free_page, free_all_user_pages and a shrinking realloc_page.
LEMMA UnmapQuiet ==
  ASSUME Inv, ZeroAbsent, LentMarked, NEW S \in SUBSET Pages,
         kernel_tables' = UnmapAll(kernel_tables, S),
         held \subseteq held' \cup S, lent' \subseteq lent, breach \subseteq breach'
  PROVE  Quiet /\ (ZeroAbsent /\ LentMarked)'
<1>1. /\ 0 \notin Pool /\ 0 \in Pages
      /\ lent \subseteq Pages
  BY SizesAssumption, ReservedAssumption DEF Pool, Pages, Inv, TypeOK
<1>2. \A v \in Pages :
        /\ kernel_tables'[v].user = kernel_tables[v].user
        /\ v \in S => kernel_tables'[v].address = 0 /\ ~kernel_tables'[v].present
        /\ v \notin S => /\ kernel_tables'[v].present = kernel_tables[v].present
                        /\ kernel_tables'[v].address = kernel_tables[v].address
  BY DEF UnmapAll
<1>3. Stranded' \subseteq Stranded
  <2>1. Changed(kernel_tables, kernel_tables', S, {})
    BY <1>1, <1>2 DEF Changed
  <2> QED
    BY <2>1, NoneStranded
<1>4. (ZeroAbsent /\ LentMarked)'
  BY <1>1, <1>2, MarksKept
<1> QED
  BY <1>3, <1>4 DEF Quiet

\* map_page_to and realloc_page in place, which hand out every page they map.
LEMMA MapQuiet ==
  ASSUME Inv, ZeroAbsent, LentMarked, NEW start \in Pages, NEW n \in Nat,
         NEW fs \in LowestFree(pmem_used, n),
         kernel_tables' = MapAddrs(kernel_tables, start, fs),
         held \subseteq held', Run(start, Len(fs)) \subseteq held', lent' = lent,
         breach \subseteq breach', 0 \notin Run(start, Len(fs))
  PROVE  Quiet /\ (ZeroAbsent /\ LentMarked)'
<1> DEFINE new == Run(start, Len(fs))
<1>1. Sound(kernel_tables, pmem_used) /\ lent \subseteq Pages /\ 0 \in Pages
  BY SizesAssumption DEF Inv, TypeOK, Pages
<1>2. \A v \in Pages :
        /\ kernel_tables'[v].user = kernel_tables[v].user
        /\ v \notin new => /\ kernel_tables'[v].present = kernel_tables[v].present
                          /\ kernel_tables'[v].address = kernel_tables[v].address
  BY <1>1, MapEffect
<1> HIDE DEF new
<1>3. 0 \notin new /\ new \subseteq held'
  BY DEF new
<1>4. Stranded' \subseteq Stranded
  <2>1. Changed(kernel_tables, kernel_tables', {}, new)
    BY <1>2 DEF Changed
  <2> QED
    BY <1>3, <2>1, NoneStranded
<1>5. (ZeroAbsent /\ LentMarked)'
  BY <1>1, <1>2, <1>3, MarksKept
<1> QED
  BY <1>4, <1>5 DEF Quiet

\* realloc_page to a new block: memcpy through NULL faults at page 0, so that the
\* old block is freed only when there is a new one.
LEMMA MoveQuiet ==
  ASSUME Inv, ZeroAbsent, LentMarked, NEW start \in Pages, NEW old \in 1 .. MaxPages,
         NEW new \in 1 .. MaxPages, ReallocMove(start, old, new)
  PROVE  Quiet /\ (ZeroAbsent /\ LentMarked)'
<1> DEFINE source == Run(start, old)
           T(o) == MapAddrs(kernel_tables, o.start, o.frames)
<1>1. Sound(kernel_tables, pmem_used) /\ lent \subseteq Pages /\ 0 \in Pages /\ 0 \notin Pool
  BY SizesAssumption, ReservedAssumption DEF Inv, TypeOK, Pages, Pool
<1>2. PICK o \in AllocOutcomes(kernel_tables, pmem_used, new) :
        \/ Allocate(o) /\ Halt
        \/ /\ Succeeds(o, new) \/ ~NullFaults(T(o), old)
           /\ kernel_tables' = UnmapAll(T(o), source)
           /\ held' = (held \ source) \cup Block(o, new)
           /\ lent' = lent \ source
           /\ BreachIf(Wraps(o), "past_end")
  BY DEF ReallocMove
<1>3. CASE Allocate(o) /\ Halt
  BY <1>3, AllocateQuiet DEF Halt
<1>4. CASE /\ Succeeds(o, new) \/ ~NullFaults(T(o), old)
           /\ kernel_tables' = UnmapAll(T(o), source)
           /\ held' = (held \ source) \cup Block(o, new)
           /\ lent' = lent \ source
           /\ BreachIf(Wraps(o), "past_end")
  <2> DEFINE t == T(o)
             got == Run(o.start, Len(o.frames))
  <2>1. /\ \A v \in Pages :
             /\ t[v].user = kernel_tables[v].user
             /\ v \notin got => /\ t[v].present = kernel_tables[v].present
                               /\ t[v].address = kernel_tables[v].address
        /\ Succeeds(o, new) => Block(o, new) = got
        /\ ~Wraps(o) => 0 \notin got
    BY <1>1, AllocEffect
  <2>2. /\ breach \subseteq breach'
        /\ "past_end" \notin breach' => ~Wraps(o) /\ "past_end" \notin breach
    BY <1>4 DEF BreachIf
  <2>3. 0 \in Run(0, old)
    BY <1>1, SizesAssumption DEF Run, Slot
  <2>4. source \subseteq Pages
    BY DEF Run
  <2> HIDE DEF t, got, source
  <2>5. kernel_tables' = UnmapAll(t, source) /\ (Succeeds(o, new) \/ ~NullFaults(t, old))
    BY <1>4 DEF t
  <2>6. \A v \in Pages :
          /\ kernel_tables'[v].user = kernel_tables[v].user
          /\ v \in source => kernel_tables'[v].address = 0 /\ ~kernel_tables'[v].present
          /\ v \notin source => /\ kernel_tables'[v].present = t[v].present
                               /\ kernel_tables'[v].address = t[v].address
    BY <2>1, <2>5 DEF UnmapAll
  <2>7. (ZeroAbsent /\ LentMarked)'
    <3>1. "past_end" \notin breach' => (kernel_tables'[0].present => kernel_tables[0].present)
      BY <1>1, <2>1, <2>2, <2>6
    <3> QED
      BY <1>1, <1>4, <2>2, <2>6, <3>1, MarksKept
  <2>8. Quiet
    <3> SUFFICES ASSUME "past_end" \notin breach' PROVE Stranded' \subseteq Stranded
      BY DEF Quiet
    <3>1. ~t[0].present
      BY <1>1, <2>1, <2>2 DEF ZeroAbsent
    <3>2. Succeeds(o, new)
      BY <2>3, <2>5, <3>1 DEF NullFaults
    <3>3. held' = (held \ source) \cup got
      BY <1>4, <2>1, <3>2
    <3>4. Changed(kernel_tables, kernel_tables', source, got)
      BY <1>1, <2>1, <2>6 DEF Changed
    <3> QED
      BY <3>3, <3>4, NoneStranded
  <2> QED
    BY <2>7, <2>8
<1> QED
  BY <1>2, <1>3, <1>4

LEMMA QuietInit == Init => ZeroAbsent /\ LentMarked
BY SizesAssumption, BootMapAssumption DEF Init, ZeroAbsent, LentMarked, Pages

LEMMA QuietNext ==
  Inv /\ ZeroAbsent /\ LentMarked /\ [Next]_vars => Quiet /\ (ZeroAbsent /\ LentMarked)'
<1> SUFFICES ASSUME Inv, ZeroAbsent, LentMarked, [Next]_vars
             PROVE  Quiet /\ (ZeroAbsent /\ LentMarked)'
  OBVIOUS
<1> DEFINE Goal == Quiet /\ (ZeroAbsent /\ LentMarked)'
<1>1. TypeOK /\ Sound(kernel_tables, pmem_used)
  BY DEF Inv
<1>2. ASSUME NEW n \in 1 .. MaxPages, alloc_page(n) \/ calloc_page(n) PROVE Goal
  <2>1. PICK o \in AllocOutcomes(kernel_tables, pmem_used, n) :
          /\ Allocate(o) /\ lent' = lent
          /\ halted' \/ held' = held \cup Block(o, n)
    BY <1>2 DEF alloc_page, calloc_page, Halt, Give
  <2> QED
    BY <2>1, AllocateQuiet
<1>3. ASSUME NEW start, NEW n, free_page(start, n) PROVE Goal
  <2>1. /\ Run(start, n) \in SUBSET Pages
        /\ held \subseteq held' \cup Run(start, n) /\ lent' \subseteq lent
        /\ breach \subseteq breach'
        /\ kernel_tables' = UnmapAll(kernel_tables, Run(start, n))
    BY <1>3 DEF free_page, Run
  <2> QED
    BY <2>1, UnmapQuiet
<1>4. ASSUME NEW v \in Pages, map_page_to(v) PROVE Goal
  <2>1. PICK fs \in LowestFree(pmem_used, 1) :
          /\ kernel_tables' = MapAddrs(kernel_tables, v, fs)
          /\ Give(IF fs = <<>> THEN {} ELSE {v})
          /\ lent' = lent /\ breach' = breach /\ v # 0
    BY <1>4 DEF map_page_to
  <2>2. Len(fs) \in 0 .. 1 /\ (Len(fs) = 1 => fs # <<>>)
    <3>1. Len(<<>>) # 1
      OBVIOUS
    <3>2. Len(fs) \in 0 .. 1
      <4>1. 1 \in Nat
        OBVIOUS
      <4> QED
        BY <2>1, <4>1, LowestFreeShape
    <3> QED
      BY <3>1, <3>2
  <2>3. Run(v, 1) = {v} /\ Run(v, 0) = {}
    BY SizesAssumption DEF Run, Slot, Pages
  <2>4. /\ 0 \notin Run(v, Len(fs)) /\ Run(v, Len(fs)) \subseteq held'
        /\ held \subseteq held'
    <3>1. CASE Len(fs) = 0
      BY <2>1, <2>3, <3>1 DEF Give
    <3>2. CASE Len(fs) = 1
      <4>1. held' = held \cup {v}
        BY <2>1, <2>2, <3>2 DEF Give
      <4> QED
        BY <2>1, <2>3, <3>2, <4>1
    <3> QED
      BY <2>2, <3>1, <3>2
  <2> QED
    BY <2>1, <2>4, MapQuiet
<1>5. ASSUME NEW v \in Pages, NEW user \in BOOLEAN, mark_user(v, user) PROVE Goal
  <2>1. /\ \A w \in Pages : /\ kernel_tables'[w].present = kernel_tables[w].present
                            /\ kernel_tables'[w].address = kernel_tables[w].address
                            /\ w # v => kernel_tables'[w].user = kernel_tables[w].user
        /\ kernel_tables'[v].user = user
    BY <1>1, <1>5 DEF mark_user, TypeOK, Entry
  <2>2. /\ held' = held /\ breach' = breach /\ 0 \in Pages /\ lent \subseteq Pages
        /\ lent' = IF user THEN lent \cup {v} ELSE lent \ {v}
    BY <1>1, <1>5, SizesAssumption DEF mark_user, Pages, TypeOK
  <2>3. Changed(kernel_tables, kernel_tables', {}, {})
    BY <2>1 DEF Changed
  <2>4. Stranded' \subseteq Stranded
    BY <2>2, <2>3, NoneStranded
  <2>5. (ZeroAbsent /\ LentMarked)'
    BY <2>1, <2>2 DEF ZeroAbsent, LentMarked
  <2> QED
    BY <2>4, <2>5 DEF Quiet
<1>6. ASSUME NEW start \in Pages, NEW old \in 1 .. MaxPages, NEW new \in 1 .. MaxPages,
             realloc_page(start, old, new)
      PROVE  Goal
  <2>1. CASE ReallocShrink(start, old, new)
    BY <1>3, <2>1 DEF ReallocShrink
  <2>2. CASE ReallocInPlace(start, old, new)
    <3> DEFINE first == start + old
               n == new - old
    <3>1. /\ first \in Pages /\ first # 0 /\ n \in Nat /\ first + n <= NPages
          /\ Growth(start, old, new) = Run(first, n)
      BY <1>6, <2>2, SizesAssumption
      DEF realloc_page, ReallocArgs, ReallocInPlace, Growth, Pages
    <3>2. PICK fs \in LowestFree(pmem_used, n) :
            /\ kernel_tables' = MapAddrs(kernel_tables, first, fs)
            /\ Give(Growth(start, old, new))
            /\ BreachIf(Len(fs) < n, "short_grow")
            /\ lent' = lent
      BY <2>2 DEF ReallocInPlace
    <3> HIDE DEF first, n
    <3>3. Len(fs) \in 0 .. n
      BY <3>1, LowestFreeShape
    <3>4. Run(first, Len(fs)) \subseteq Run(first, n)
      BY <3>1, <3>3 DEF Run
    <3>5. 0 \notin Run(first, n)
      BY <3>1, SizesAssumption DEF Run, Slot, Pages
    <3>6. /\ held \subseteq held' /\ Run(first, Len(fs)) \subseteq held'
          /\ breach \subseteq breach' /\ 0 \notin Run(first, Len(fs))
      BY <3>1, <3>2, <3>4, <3>5 DEF Give, BreachIf
    <3> QED
      BY <3>1, <3>2, <3>6, MapQuiet
  <2>3. CASE ReallocMove(start, old, new)
    BY <1>6, <2>3, MoveQuiet
  <2> QED
    BY <1>6, <2>1, <2>2, <2>3 DEF realloc_page
<1>7. ASSUME free_all_user_pages PROVE Goal
  <2> DEFINE S == UserPages(kernel_tables)
  <2>1. /\ S \in SUBSET Pages /\ lent' = {} /\ held' = held \ lent
        /\ kernel_tables' = UnmapAll(kernel_tables, S)
        /\ breach \subseteq breach'
    BY <1>7 DEF free_all_user_pages, UserPages, BreachIf
  <2>2. \A v \in lent : kernel_tables[v].present => v \in S
    BY <1>1 DEF UserPages, LentMarked, TypeOK
  <2> HIDE DEF S
  <2>3. \A v \in Pages :
          /\ kernel_tables'[v].user = kernel_tables[v].user
          /\ v \in S => kernel_tables'[v].address = 0 /\ ~kernel_tables'[v].present
          /\ v \notin S => /\ kernel_tables'[v].present = kernel_tables[v].present
                          /\ kernel_tables'[v].address = kernel_tables[v].address
    BY <2>1 DEF UnmapAll
  <2>4. 0 \notin Pool /\ 0 \in Pages
    BY SizesAssumption, ReservedAssumption DEF Pool, Pages
  <2>5. Stranded' \subseteq Stranded
    BY <2>1, <2>2, <2>3, <2>4 DEF Stranded
  <2>6. (ZeroAbsent /\ LentMarked)'
    BY <2>1, <2>3, <2>4 DEF ZeroAbsent, LentMarked
  <2> QED
    BY <2>5, <2>6 DEF Quiet
<1>8. CASE UNCHANGED vars
  BY <1>8 DEF vars, Quiet, Stranded, ZeroAbsent, LentMarked
<1> QED
  BY <1>2, <1>3, <1>4, <1>5, <1>6, <1>7, <1>8 DEF Next, Call, Spin

\* Only alloc_page, calloc_page and realloc_page that run out of frames leave a
\* mapped page without a holder, until a block has wrapped round to page 0.
THEOREM NothingStranded == Spec => StrandsOnlyWhenFull
<1> DEFINE Marks == ZeroAbsent /\ LentMarked
<1>1. Init => Inv /\ Marks
  BY InitInv, QuietInit
<1>2. Inv /\ Marks /\ [Next]_vars => (Inv /\ Marks)'
  BY NextInv, QuietNext
<1>3. Inv /\ Marks /\ [Next]_vars => [Quiet]_vars
  BY QuietNext
<1>4. [Quiet]_vars => [\/ Stranded' \subseteq Stranded
                       \/ FreeFrames(pmem_used') = {}
                       \/ halted'
                       \/ "past_end" \in breach']_vars
  BY DEF Quiet
<1> QED
  BY <1>1, <1>2, <1>3, <1>4, PTL DEF Spec, StrandsOnlyWhenFull

----------------------------------------------------------------------------
(* PageManager implements PagePool.  A change of tables and bitmap is a    *)
(* Transfer when it respects the owners; mapping free frames is one, and a *)
(* Transfer followed by unmapping is one, which covers every operation.    *)

Maps(t, v, f) == t[v].present /\ t[v].address = f

\* From tables t and bitmap u to t2 and u2: a claimed frame gets no new page,
\* a newly claimed frame gets one, and a newly free frame had one.
Transfer(t, u, t2, u2) ==
  \A f \in Pool :
    /\ f \in u /\ f \in u2 => \A v \in Pages : Maps(t2, v, f) => Maps(t, v, f)
    /\ f \notin u /\ f \in u2 => \E v \in Pages : Maps(t2, v, f)
    /\ f \in u /\ f \notin u2 => \E v \in Pages : Maps(t, v, f)

\* The owner of a frame, read off the tables.
LEMMA OwnerFacts ==
  ASSUME NEW t, NEW u, Sound(t, u), NEW f \in Pool
  PROVE  /\ OwnerOf(t, u, f) \in Pages \cup {-1, -2}
         /\ OwnerOf(t, u, f) = -1 <=> f \notin u
         /\ \A v \in Pages : OwnerOf(t, u, f) = v <=> Maps(t, v, f)
<1>1. Pages \subseteq Nat
  BY DEF Pages
<1>2. \A v \in Pages : Maps(t, v, f) => f \in u
  BY DEF Sound, PoolMapped, Mapped, Maps
<1>3. \A v, w \in Pages : Maps(t, v, f) /\ Maps(t, w, f) => v = w
  BY DEF Sound, Exclusive, Mapped, Maps
<1>4. MappedTo(t, f) = {v \in Pages : Maps(t, v, f)}
  BY DEF MappedTo, Maps
<1>5. CASE f \notin u
  BY <1>1, <1>2, <1>5 DEF OwnerOf
<1>6. CASE f \in u /\ MappedTo(t, f) = {}
  BY <1>1, <1>4, <1>6 DEF OwnerOf
<1>7. CASE f \in u /\ MappedTo(t, f) # {}
  <2>1. OwnerOf(t, u, f) \in MappedTo(t, f)
    BY <1>7 DEF OwnerOf
  <2>2. PICK w \in Pages : OwnerOf(t, u, f) = w /\ Maps(t, w, f)
    BY <1>4, <2>1
  <2>3. w # -1
    BY <1>1
  <2>4. \A v \in Pages : w = v <=> Maps(t, v, f)
    BY <1>3, <2>2
  <2> QED
    BY <1>7, <2>2, <2>3, <2>4
<1> QED
  BY <1>5, <1>6, <1>7

\* A Transfer is a step of PagePool.
LEMMA TransferStep ==
  ASSUME Sound(kernel_tables, pmem_used), Sound(kernel_tables', pmem_used'),
         Transfer(kernel_tables, pmem_used, kernel_tables', pmem_used')
  PROVE  AbstractPool!Next
<1> DEFINE own(f) == OwnerOf(kernel_tables, pmem_used, f)
           own2(f) == OwnerOf(kernel_tables', pmem_used', f)
<1>0. Pages \subseteq Nat
  BY DEF Pages
<1>1. \A f \in Pool : OwnerMap[f] = own(f) /\ OwnerMap'[f] = own2(f)
  BY DEF OwnerMap
<1>2. \A f \in Pool : /\ own(f) \in Pages \cup {-1, -2}
                      /\ own(f) = -1 <=> f \notin pmem_used
                      /\ \A v \in Pages : own(f) = v <=> Maps(kernel_tables, v, f)
  BY OwnerFacts
<1>3. \A f \in Pool : /\ own2(f) \in Pages \cup {-1, -2}
                      /\ own2(f) = -1 <=> f \notin pmem_used'
                      /\ \A v \in Pages : own2(f) = v <=> Maps(kernel_tables', v, f)
  BY OwnerFacts
<1> HIDE DEF own, own2
<1>4. OwnerMap' \in [Pool -> Pages \cup {-1, -2}]
  BY <1>1, <1>3 DEF OwnerMap
<1>5. ASSUME NEW f \in Pool, NEW g \in Pool, OwnerMap'[f] = OwnerMap'[g],
             OwnerMap'[f] \in Pages
      PROVE  f = g
  BY <1>1, <1>3, <1>5 DEF Maps
<1>6. ASSUME NEW f \in Pool
      PROVE  \/ own2(f) = own(f)
             \/ own(f) = -1 /\ own2(f) \in Pages
             \/ own(f) \in Pages /\ own2(f) = -1
             \/ own(f) \in Pages /\ own2(f) = -2
  <2>1. CASE f \in pmem_used /\ f \in pmem_used'
    <3>1. own(f) # -1 /\ own2(f) # -1
      BY <1>2, <1>3, <2>1
    <3>2. CASE own2(f) \in Pages
      <4>1. Maps(kernel_tables', own2(f), f)
        BY <1>3, <3>2
      <4>2. Maps(kernel_tables, own2(f), f)
        BY <2>1, <3>2, <4>1 DEF Transfer
      <4> QED
        BY <1>2, <3>2, <4>2
    <3>3. CASE own2(f) = -2
      BY <1>2, <3>1, <3>3
    <3> QED
      BY <1>3, <3>1, <3>2, <3>3
  <2>2. CASE f \notin pmem_used /\ f \in pmem_used'
    <3>1. PICK v \in Pages : Maps(kernel_tables', v, f)
      BY <2>2 DEF Transfer
    <3> QED
      BY <1>2, <1>3, <2>2, <3>1
  <2>3. CASE f \in pmem_used /\ f \notin pmem_used'
    <3>1. PICK v \in Pages : Maps(kernel_tables, v, f)
      BY <2>3 DEF Transfer
    <3> QED
      BY <1>2, <1>3, <2>3, <3>1
  <2>4. CASE f \notin pmem_used /\ f \notin pmem_used'
    BY <1>2, <1>3, <2>4
  <2> QED
    BY <2>1, <2>2, <2>3, <2>4
<1> QED
  BY <1>1, <1>4, <1>5, <1>6
  DEF AbstractPool!Next, AbstractPool!Call, AbstractPool!OnePerPage,
      AbstractPool!Keep, AbstractPool!Grant, AbstractPool!Reclaim,
      AbstractPool!Lose, AbstractPool!Owners, AbstractPool!Free, AbstractPool!Lost

\* Mapping what LowestFree or alloc_page chose is a Transfer.
LEMMA MapTransfer ==
  ASSUME NEW t, NEW u, Sound(t, u), NEW start \in Pages, NEW n \in Nat, n <= NPages,
         NEW fs, fs \in LowestFree(u, n) \/ fs = <<>>
  PROVE  /\ Transfer(t, u, MapAddrs(t, start, fs), ClaimAll(u, fs))
         /\ u \subseteq ClaimAll(u, fs)
<1> DEFINE t2 == MapAddrs(t, start, fs)
           new(v) == Slot(v, start) \in DOMAIN fs
<1>1. /\ DOMAIN fs = 1 .. Len(fs) /\ Len(fs) \in 0 .. n
      /\ \A i \in DOMAIN fs : fs[i] \in Pool /\ fs[i] \notin u
  <2>1. CASE fs \in LowestFree(u, n)
    <3>1. Reserved \ {0} \subseteq u
      BY DEF Sound
    <3> QED
      BY <2>1, <3>1, LowestFreeFacts
  <2>2. CASE fs = <<>>
    BY <2>2
  <2> QED
    BY <2>1, <2>2
<1>2. \A v \in Pages :
        /\ new(v) => t2[v].present /\ t2[v].address = fs[Slot(v, start)]
        /\ ~new(v) => t2[v].present = t[v].present /\ t2[v].address = t[v].address
  BY DEF MapAddrs
<1>3. \A i \in DOMAIN fs : \E v \in Pages : Slot(v, start) = i
  BY <1>1, SlotOnto, SizesAssumption
<1> HIDE DEF t2
<1>4. ASSUME NEW f \in Pool, f \in u, NEW v \in Pages, Maps(t2, v, f)
      PROVE  Maps(t, v, f)
  BY <1>1, <1>2, <1>4 DEF Maps
<1>5. ASSUME NEW f \in Pool, f \notin u, f \in ClaimAll(u, fs)
      PROVE  \E v \in Pages : Maps(t2, v, f)
  <2>1. PICK i \in DOMAIN fs : fs[i] = f
    BY <1>5 DEF ClaimAll
  <2>2. PICK v \in Pages : Slot(v, start) = i
    BY <1>3
  <2> QED
    BY <1>2, <2>1, <2>2 DEF Maps
<1>6. u \subseteq ClaimAll(u, fs)
  BY DEF ClaimAll
<1> QED
  BY <1>4, <1>5, <1>6 DEF Transfer, t2

\* A Transfer followed by unmapping pages is a Transfer.
LEMMA UnmapTransfer ==
  ASSUME NEW t, NEW u, NEW t1, NEW u1, Sound(t1, u1),
         Transfer(t, u, t1, u1), u \subseteq u1, NEW S \in SUBSET Pages
  PROVE  Transfer(t, u, UnmapAll(t1, S), ReleaseAll(u1, t1, S))
<1> DEFINE t2 == UnmapAll(t1, S)
           u2 == ReleaseAll(u1, t1, S)
<1>1. \A v \in Pages :
        /\ v \in S => ~t2[v].present
        /\ v \notin S => t2[v].present = t1[v].present /\ t2[v].address = t1[v].address
  BY DEF UnmapAll
<1>2. u2 = u1 \ {t1[v].address : v \in S}
  BY DEF ReleaseAll
<1> HIDE DEF t2, u2
<1>3. ASSUME NEW f \in Pool, f \in u, f \in u2, NEW v \in Pages, Maps(t2, v, f)
      PROVE  Maps(t, v, f)
  BY <1>1, <1>2, <1>3 DEF Transfer, Maps
<1>4. ASSUME NEW f \in Pool, f \notin u, f \in u2
      PROVE  \E v \in Pages : Maps(t2, v, f)
  <2>1. PICK v \in Pages : Maps(t1, v, f)
    BY <1>2, <1>4 DEF Transfer
  <2>2. v \notin S
    BY <1>2, <1>4, <2>1 DEF Maps
  <2> QED
    BY <1>1, <2>1, <2>2 DEF Maps
<1>5. ASSUME NEW f \in Pool, f \in u, f \notin u2
      PROVE  \E v \in Pages : Maps(t, v, f)
  <2>1. PICK v \in S : t1[v].address = f
    BY <1>2, <1>5
  <2>2. Maps(t1, v, f)
    <3>1. f # 0
      BY SizesAssumption, ReservedAssumption DEF Pool
    <3> QED
      BY <2>1, <3>1 DEF Sound, Zeroed, Maps
  <2> QED
    BY <1>5, <2>2 DEF Transfer
<1> QED
  BY <1>3, <1>4, <1>5 DEF Transfer, t2, u2

----------------------------------------------------------------------------
\* Nothing changes hands when no page is mapped or unmapped.
LEMMA NoTransfer ==
  ASSUME NEW t, NEW u, NEW t2,
         \A v \in Pages : t2[v].present = t[v].present /\ t2[v].address = t[v].address
  PROVE  Transfer(t, u, t2, u)
BY DEF Transfer, Maps

\* Every call is a step of PagePool, or leaves every owner as it is.
LEMMA NextTransfer ==
  ASSUME Inv, [Next]_vars
  PROVE  Transfer(kernel_tables, pmem_used, kernel_tables', pmem_used')
<1>1. Sound(kernel_tables, pmem_used) /\ TypeOK
  BY DEF Inv
<1>2. \A n \in 1 .. MaxPages : n \in Nat /\ n <= NPages
  BY SizesAssumption
<1>3. ASSUME NEW n \in 1 .. MaxPages,
             NEW o \in AllocOutcomes(kernel_tables, pmem_used, n)
      PROVE  LET t1 == MapAddrs(kernel_tables, o.start, o.frames)
                 u1 == ClaimAll(pmem_used, o.frames)
             IN  Transfer(kernel_tables, pmem_used, t1, u1) /\ pmem_used \subseteq u1
  <2>1. o.start \in Pages /\ (o.frames \in LowestFree(pmem_used, n) \/ o.frames = <<>>)
    BY <1>1, AllocFacts
  <2> QED
    BY <1>1, <1>2, <2>1, MapTransfer
<1>4. ASSUME NEW n \in 1 .. MaxPages, alloc_page(n) \/ calloc_page(n)
      PROVE  Transfer(kernel_tables, pmem_used, kernel_tables', pmem_used')
  BY <1>3, <1>4 DEF alloc_page, calloc_page, Allocate
<1>5. ASSUME NEW S \in SUBSET Pages,
             kernel_tables' = UnmapAll(kernel_tables, S),
             pmem_used' = ReleaseAll(pmem_used, kernel_tables, S)
      PROVE  Transfer(kernel_tables, pmem_used, kernel_tables', pmem_used')
  <2>1. Transfer(kernel_tables, pmem_used, kernel_tables, pmem_used)
    BY DEF Transfer
  <2> QED
    BY <1>1, <1>5, <2>1, UnmapTransfer
<1>6. ASSUME NEW start, NEW n, free_page(start, n)
      PROVE  Transfer(kernel_tables, pmem_used, kernel_tables', pmem_used')
  <2>1. Run(start, n) \in SUBSET Pages
    BY DEF Run
  <2> QED
    BY <1>5, <1>6, <2>1 DEF free_page
<1>7. ASSUME NEW v \in Pages, map_page_to(v)
      PROVE  Transfer(kernel_tables, pmem_used, kernel_tables', pmem_used')
  <2>1. 1 \in Nat /\ 1 <= NPages
    BY SizesAssumption
  <2> QED
    BY <1>1, <1>7, <2>1, MapTransfer DEF map_page_to
<1>8. ASSUME NEW v \in Pages, NEW user \in BOOLEAN, mark_user(v, user)
      PROVE  Transfer(kernel_tables, pmem_used, kernel_tables', pmem_used')
  <2>1. \A w \in Pages : /\ kernel_tables'[w].present = kernel_tables[w].present
                         /\ kernel_tables'[w].address = kernel_tables[w].address
    BY <1>1, <1>8 DEF mark_user, TypeOK, Entry
  <2> QED
    BY <1>8, <2>1, NoTransfer DEF mark_user
<1>9. ASSUME NEW start \in Pages, NEW old \in 1 .. MaxPages, NEW new \in 1 .. MaxPages,
             realloc_page(start, old, new)
      PROVE  Transfer(kernel_tables, pmem_used, kernel_tables', pmem_used')
  <2>1. CASE ReallocShrink(start, old, new)
    BY <1>6, <2>1 DEF ReallocShrink
  <2>2. CASE ReallocInPlace(start, old, new)
    <3>1. start + old \in Pages /\ new - old \in Nat /\ new - old <= NPages
      BY <1>9, <2>2, SizesAssumption
      DEF realloc_page, ReallocArgs, ReallocInPlace, Pages
    <3> QED
      BY <1>1, <2>2, <3>1, MapTransfer DEF ReallocInPlace
  <2>3. CASE ReallocMove(start, old, new)
    <3> DEFINE source == Run(start, old)
               T(o) == MapAddrs(kernel_tables, o.start, o.frames)
               U(o) == ClaimAll(pmem_used, o.frames)
    <3>1. PICK o \in AllocOutcomes(kernel_tables, pmem_used, new) :
            \/ kernel_tables' = T(o) /\ pmem_used' = U(o)
            \/ /\ kernel_tables' = UnmapAll(T(o), source)
               /\ pmem_used' = ReleaseAll(U(o), T(o), source)
      BY <2>3 DEF ReallocMove, Allocate
    <3>2. Transfer(kernel_tables, pmem_used, T(o), U(o)) /\ pmem_used \subseteq U(o)
      BY <1>3
    <3>3. Sound(T(o), U(o))
      BY <1>1, AllocSound
    <3>4. source \in SUBSET Pages
      BY DEF Run
    <3> HIDE DEF T, U, source
    <3> QED
      BY <3>1, <3>2, <3>3, <3>4, UnmapTransfer
  <2> QED
    BY <1>9, <2>1, <2>2, <2>3 DEF realloc_page
<1>10. ASSUME free_all_user_pages
       PROVE  Transfer(kernel_tables, pmem_used, kernel_tables', pmem_used')
  <2>1. UserPages(kernel_tables) \in SUBSET Pages
    BY DEF UserPages
  <2> QED
    BY <1>5, <1>10, <2>1 DEF free_all_user_pages
<1>11. CASE UNCHANGED vars
  BY <1>11, NoTransfer DEF vars
<1> QED
  BY <1>4, <1>6, <1>7, <1>8, <1>9, <1>10, <1>11 DEF Next, Call, Spin

\* The initial tables map no frame of the pool, and every one is free.
LEMMA InitPool == Init => AbstractPool!Init
<1> SUFFICES ASSUME Init PROVE AbstractPool!Init
  OBVIOUS
<1>1. \A f \in Pool : f \notin pmem_used
  BY DEF Init, Pool
<1>2. \A f \in Pool : OwnerOf(kernel_tables, pmem_used, f) = -1
  BY <1>1 DEF OwnerOf
<1> QED
  BY <1>2 DEF OwnerMap, AbstractPool!Init, AbstractPool!Free

\* The page manager keeps what PagePool promises of every frame.
THEOREM Implementation == Spec => ImplementsPool
<1>1. Inv /\ Inv' /\ [Next]_vars => [AbstractPool!Next]_OwnerMap
  <2> SUFFICES ASSUME Inv, Inv', [Next]_vars PROVE AbstractPool!Next
    OBVIOUS
  <2>1. Sound(kernel_tables, pmem_used) /\ Sound(kernel_tables', pmem_used')
    BY DEF Inv
  <2> QED
    BY <2>1, NextTransfer, TransferStep
<1> QED
  BY <1>1, InitPool, Invariance, PTL DEF Spec, ImplementsPool, AbstractPool!Spec

----------------------------------------------------------------------------
(***************************************************************************)
(* Address spaces.  Every step changes the tables in force in one of four  *)
(* ways: it fills pages with free frames, empties pages, takes a frame out *)
(* or brings it in, or changes what is not of the pool.  A lemma on values *)
(* says of each what becomes of the frames the two spaces and the traders  *)
(* have; the steps follow.                                                 *)
(***************************************************************************)

InPool(t, v) == t[v].present /\ t[v].address \in Pool

\* No two of these have a frame of the pool: pages of t, pages of o, frames d on
\* their way; but for a page of h, which t and o may both map to one frame.  All
\* these frames are claimed in u.
Sharing(t, o, h) ==
  \A v, w \in Pages :
    InPool(t, v) /\ InPool(o, w) /\ t[v].address = o[w].address => v = w /\ v \in h
Taken(t, o, d) == PoolMapped(t) \cup PoolMapped(o) \cup (d \cap Pool)
Apart(t, o, d, h, u) ==
  /\ Exclusive(t) /\ Exclusive(o)
  /\ Sharing(t, o, h)
  /\ d \cap (PoolMapped(t) \cup PoolMapped(o)) = {}
  /\ Taken(t, o, d) \subseteq u

\* The pages in common are mapped alike, whatever callers do.
InCommon(t, o, h) ==
  \A v \in h : t[v].present /\ o[v].present /\ t[v].address = o[v].address

\* Whoever may free a page maps a frame of the pool there.
HoldsPool(t, hd) ==
  /\ \A v \in hd : InPool(t, v)
  /\ \A v \in Pages : t[v].present /\ t[v].user => t[v].address \in Pool

\* The copy's own pages w are mapped to it in tables t, and nobody may free them.
OwnPages(t, hd, w) ==
  \A i \in DOMAIN w :
    /\ InPool(t, w[i][1]) /\ t[w[i][1]].address = w[i][2]
    /\ ~t[w[i][1]].user /\ w[i][1] \notin hd

----------------------------------------------------------------------------
\* The invariant, in five parts: what holds whatever callers do, and what holds
\* until one of the misuses that each part names.

Lasting ==
  /\ SpacesTypeOK
  /\ Zeroed(kernel_tables) /\ Zeroed(other.tables)
  /\ InCommon(kernel_tables, other.tables, inherited)
  /\ forked => Cloned
  /\ ~Cloned => inherited = {} /\ other = Space(Absent, {}, {})

FramesApart ==
  NoneGivenUp => Apart(kernel_tables, other.tables, traded, inherited, pmem_used)

AllAccounted ==
  misuse = {} => pmem_used \cap Pool = Taken(kernel_tables, other.tables, traded)

SameBits ==
  "lent" \notin misuse =>
    \A v \in inherited : /\ kernel_tables[v].user = other.tables[v].user
                         /\ forked => ~kernel_tables[v].user

Untouched ==
  NoneStale =>
    /\ ReservedKept
    /\ HoldsPool(kernel_tables, held) /\ HoldsPool(other.tables, other.held)
    /\ traded \subseteq Pool
    /\ OwnPages(kernel_tables, held, window) /\ OwnPages(other.tables, other.held, window)

SpacesInv == Lasting /\ FramesApart /\ AllAccounted /\ SameBits /\ Untouched

----------------------------------------------------------------------------
\* From tables t and bitmap u to t2 and u2: the pages of S get free frames, each
\* its own, and keep their user bits; all others are left alone.
Fills(t, t2, u, u2, S) ==
  /\ t2 \in [Pages -> Entry]
  /\ \A v \in S : /\ t2[v].present /\ t2[v].address \in FreeFrames(u)
                  /\ t2[v].user = t[v].user
  /\ \A v, w \in S : t2[v].address = t2[w].address => v = w
  /\ \A v \in Pages \ S : t2[v] = t[v]
  /\ u2 = u \cup {t2[v].address : v \in S}

\* The frames of the pool that t maps are mapped by t2 at the same pages, and
\* no others are.
SamePool(t, t2) ==
  \A v \in Pages : /\ InPool(t, v) <=> InPool(t2, v)
                   /\ InPool(t, v) => t2[v].address = t[v].address

LEMMA NoFrameZero == 0 \in Frames /\ 0 \notin Pool
BY SizesAssumption, ReservedAssumption DEF Pool, Frames

LEMMA FreeFramesAre ==
  ASSUME NEW u
  PROVE  FreeFrames(u) \subseteq Frames /\ \A f \in FreeFrames(u) : f \notin u
BY SizesAssumption DEF FreeFrames, Frames

\* map_addr onto free frames fills the pages of a run.
LEMMA MapFills ==
  ASSUME NEW t \in [Pages -> Entry], NEW u, NEW start \in Pages, NEW n \in 0 .. NPages,
         NEW fs, DOMAIN fs = 1 .. n,
         \A i \in DOMAIN fs : fs[i] \in FreeFrames(u),
         \A i, j \in DOMAIN fs : fs[i] = fs[j] => i = j
  PROVE  Fills(t, MapAddrs(t, start, fs), u, ClaimAll(u, fs), Run(start, n))
<1> DEFINE t2 == MapAddrs(t, start, fs)
           S == Run(start, n)
<1>1. \A v \in Pages : v \in S <=> Slot(v, start) \in DOMAIN fs
  BY DEF Run
<1>2. \A v \in Pages :
        /\ v \in S => t2[v] = [present |-> TRUE, address |-> fs[Slot(v, start)],
                               user |-> t[v].user]
        /\ v \notin S => t2[v] = t[v]
  BY <1>1 DEF MapAddrs
<1>3. t2 = [v \in Pages |-> t2[v]]
  BY DEF MapAddrs
<1>4. S \subseteq Pages
  BY DEF Run
<1>5. \A v \in S : /\ t2[v].present /\ t2[v].address = fs[Slot(v, start)]
                   /\ t2[v].user = t[v].user
  BY <1>1, <1>4 DEF MapAddrs
<1> HIDE DEF t2, S
<1>6. t2 \in [Pages -> Entry]
  <2>1. ASSUME NEW v \in Pages PROVE t2[v] \in Entry
    <3>1. CASE v \in S
      <4>1. fs[Slot(v, start)] \in Frames
        BY <1>1, <3>1, FreeFramesAre
      <4>2. t[v].user \in BOOLEAN
        BY DEF Entry
      <4>3. t2[v] = [present |-> TRUE, address |-> fs[Slot(v, start)], user |-> t[v].user]
        BY <1>2, <3>1
      <4> QED
        BY <4>1, <4>2, <4>3 DEF Entry
    <3>2. CASE v \notin S
      BY <1>2, <3>2
    <3> QED
      BY <3>1, <3>2
  <2> QED
    BY <1>3, <2>1
<1>7. ASSUME NEW v \in S, NEW w \in S, t2[v].address = t2[w].address PROVE v = w
  <2>1. Slot(v, start) = Slot(w, start)
    BY <1>1, <1>4, <1>5, <1>7
  <2> QED
    BY <1>4, <2>1, SlotInjective
<1>8. {fs[i] : i \in DOMAIN fs} = {t2[v].address : v \in S}
  <2>1. ASSUME NEW i \in DOMAIN fs PROVE \E v \in S : t2[v].address = fs[i]
    <3>1. PICK v \in Pages : Slot(v, start) = i
      BY SlotOnto, SizesAssumption
    <3> QED
      BY <1>1, <1>5, <3>1
  <2>2. \A v \in S : t2[v].address \in {fs[i] : i \in DOMAIN fs}
    BY <1>1, <1>4, <1>5
  <2> QED
    BY <2>1, <2>2
<1> QED
  BY <1>1, <1>2, <1>4, <1>5, <1>6, <1>7, <1>8 DEF Fills, ClaimAll, t2, S

\* The one page of a call that asks for one.
LEMMA OneFills ==
  ASSUME NEW t \in [Pages -> Entry], NEW u, NEW start \in Pages,
         NEW fs, fs \in LowestFree(u, 1) \/ fs = <<>>
  PROVE  /\ Fills(t, MapAddrs(t, start, fs), u, ClaimAll(u, fs),
                  IF fs = <<>> THEN {} ELSE {start})
         /\ fs # <<>> => Len(fs) = 1
<1>1. Run(start, 1) = {start} /\ Run(start, 0) = {}
  BY SizesAssumption DEF Run, Slot, Pages
<1>2. CASE fs = <<>>
  <2>1. DOMAIN fs = 1 .. 0 /\ 0 \in 0 .. NPages /\ \A i \in DOMAIN fs : FALSE
    BY <1>2, SizesAssumption
  <2>2. Fills(t, MapAddrs(t, start, fs), u, ClaimAll(u, fs), Run(start, 0))
    BY <2>1, MapFills
  <2> QED
    BY <1>1, <1>2, <2>2
<1>3. CASE fs # <<>>
  <2>1. /\ fs \in Seq(FreeFrames(u)) /\ Len(fs) \in 0 .. 1 /\ DOMAIN fs = 1 .. Len(fs)
        /\ \A i \in DOMAIN fs : fs[i] \in FreeFrames(u)
        /\ \A i, j \in DOMAIN fs : fs[i] = fs[j] => i = j
    BY <1>3, LowestFreeShape
  <2>2. Len(fs) # 0
    BY <1>3, <2>1, EmptySeq
  <2>3. Len(fs) = 1 /\ DOMAIN fs = 1 .. 1
    BY <2>1, <2>2
  <2>4. 1 \in 0 .. NPages
    BY SizesAssumption
  <2>5. Fills(t, MapAddrs(t, start, fs), u, ClaimAll(u, fs), Run(start, 1))
    BY <2>1, <2>3, <2>4, MapFills
  <2> QED
    BY <1>1, <1>3, <2>3, <2>5
<1> QED
  BY <1>2, <1>3

\* map_addr of one frame.
LEMMA OneEntry ==
  ASSUME NEW t \in [Pages -> Entry], NEW v \in Pages, NEW f \in Frames
  PROVE  LET t2 == MapAddrs(t, v, <<f>>)
         IN  /\ t2 \in [Pages -> Entry]
             /\ t2[v].present /\ t2[v].address = f /\ t2[v].user = t[v].user
             /\ \A w \in Pages \ {v} : t2[w] = t[w]
<1> DEFINE t2 == MapAddrs(t, v, <<f>>)
<1>1. \A w \in Pages : Slot(w, v) \in DOMAIN <<f>> <=> w = v
  BY SizesAssumption DEF Slot, Pages
<1>2. Slot(v, v) = 1
  BY SizesAssumption DEF Slot, Pages
<1>3. /\ t2[v] = [present |-> TRUE, address |-> f, user |-> t[v].user]
      /\ \A w \in Pages \ {v} : t2[w] = t[w]
  <2>1. <<f>>[Slot(v, v)] = f
    BY <1>2
  <2>2. t2[v] = [present |-> TRUE, address |-> <<f>>[Slot(v, v)], user |-> t[v].user]
    BY <1>1 DEF MapAddrs
  <2>3. \A w \in Pages \ {v} : t2[w] = t[w]
    BY <1>1 DEF MapAddrs
  <2> QED
    BY <2>1, <2>2, <2>3
<1>4. t2[v] \in Entry
  <2>1. t[v].user \in BOOLEAN
    BY DEF Entry
  <2> HIDE DEF t2
  <2> QED
    BY <1>3, <2>1 DEF Entry
<1>5. t2 = [w \in Pages |-> t2[w]]
  BY DEF MapAddrs
<1> HIDE DEF t2
<1>6. t2 \in [Pages -> Entry]
  BY <1>3, <1>4, <1>5
<1> QED
  BY <1>3, <1>6 DEF t2

----------------------------------------------------------------------------
LEMMA PoolMappedIs ==
  ASSUME NEW t, NEW f
  PROVE  f \in PoolMapped(t) <=> \E v \in Pages : InPool(t, v) /\ t[v].address = f
BY DEF PoolMapped, Mapped, InPool

LEMMA TakenIs ==
  ASSUME NEW t, NEW o, NEW d, NEW f \in Pool
  PROVE  f \in Taken(t, o, d) <=> f \in PoolMapped(t) \/ f \in PoolMapped(o) \/ f \in d
BY DEF Taken

LEMMA TakenInPool ==
  ASSUME NEW t, NEW o, NEW d
  PROVE  Taken(t, o, d) \subseteq Pool
BY DEF Taken, PoolMapped

LEMMA ExclusiveIs ==
  ASSUME NEW t
  PROVE  Exclusive(t) <=> \A v, w \in Pages : InPool(t, v) /\ InPool(t, w)
                            /\ t[v].address = t[w].address => v = w
BY DEF Exclusive, Mapped, InPool

\* Filling pages takes frames from nobody; the pages filled are in common no more.
LEMMA FillApart ==
  ASSUME NEW t, NEW t2, NEW o, NEW d, NEW h, NEW u, NEW u2, NEW S \in SUBSET Pages,
         Fills(t, t2, u, u2, S), Apart(t, o, d, h, u)
  PROVE  Apart(t2, o, d, h \ S, u2)
<1>1. \A v \in S : t2[v].present /\ t2[v].address \notin u /\ t2[v].address \in u2
  BY FreeFramesAre DEF Fills
<1>2. \A v \in Pages \ S : t2[v] = t[v]
  BY DEF Fills
<1>3. \A v, w \in S : t2[v].address = t2[w].address => v = w
  BY DEF Fills
<1>4. u \subseteq u2
  BY DEF Fills
<1>5. \A v \in Pages : /\ InPool(t, v) => t[v].address \in u
                       /\ InPool(o, v) => o[v].address \in u
  BY PoolMappedIs DEF Apart, Taken
<1>6. \A f \in d : f \in Pool => f \in u
  BY DEF Apart, Taken
<1>7. Exclusive(t2)
  <2> SUFFICES ASSUME NEW v \in Pages, NEW w \in Pages, InPool(t2, v), InPool(t2, w),
                      t2[v].address = t2[w].address
               PROVE  v = w
    BY ExclusiveIs
  <2>1. CASE v \in S /\ w \in S
    BY <1>3, <2>1
  <2>2. CASE v \in S /\ w \notin S
    BY <1>1, <1>2, <1>5, <2>2 DEF InPool
  <2>3. CASE v \notin S /\ w \in S
    BY <1>1, <1>2, <1>5, <2>3 DEF InPool
  <2>4. CASE v \notin S /\ w \notin S
    <3>1. InPool(t, v) /\ InPool(t, w) /\ t[v].address = t[w].address
      BY <1>2, <2>4 DEF InPool
    <3> QED
      BY <3>1, ExclusiveIs DEF Apart
  <2> QED
    BY <2>1, <2>2, <2>3, <2>4
<1>8. Sharing(t2, o, h \ S)
  <2> SUFFICES ASSUME NEW v \in Pages, NEW w \in Pages, InPool(t2, v), InPool(o, w),
                      t2[v].address = o[w].address
               PROVE  v = w /\ v \in h \ S
    BY DEF Sharing
  <2>1. v \notin S
    BY <1>1, <1>5
  <2> QED
    BY <1>2, <2>1 DEF Apart, Sharing, InPool
<1>9. d \cap (PoolMapped(t2) \cup PoolMapped(o)) = {}
  <2> SUFFICES ASSUME NEW v \in Pages, InPool(t2, v), t2[v].address \in d PROVE FALSE
    BY PoolMappedIs DEF Apart
  <2>1. v \notin S
    BY <1>1, <1>6 DEF InPool
  <2>2. InPool(t, v) /\ t[v].address \in d
    BY <1>2, <2>1 DEF InPool
  <2> QED
    BY <2>2, PoolMappedIs DEF Apart
<1>10. Taken(t2, o, d) \subseteq u2
  <2>1. ASSUME NEW v \in Pages, InPool(t2, v) PROVE t2[v].address \in u2
    BY <1>1, <1>2, <1>4, <1>5, <2>1 DEF InPool
  <2>2. \A f \in PoolMapped(t2) : f \in u2
    BY <2>1, PoolMappedIs
  <2> QED
    BY <1>4, <2>2 DEF Taken, Apart
<1> QED
  BY <1>7, <1>8, <1>9, <1>10 DEF Apart

\* It loses none, if the pages were empty or their frames stay with the other space.
LEMMA FillTaken ==
  ASSUME NEW t, NEW t2, NEW o, NEW d, NEW h, NEW u, NEW u2, NEW S \in SUBSET Pages,
         Fills(t, t2, u, u2, S), InCommon(t, o, h),
         \A v \in S : InPool(t, v) => v \in h,
         u \cap Pool = Taken(t, o, d)
  PROVE  u2 \cap Pool = Taken(t2, o, d)
<1>1. \A v \in S : t2[v].present
  BY DEF Fills
<1>2. \A v \in Pages \ S : t2[v] = t[v]
  BY DEF Fills
<1>3. u2 = u \cup {t2[v].address : v \in S}
  BY DEF Fills
<1>4. ASSUME NEW f \in Pool, f \in u2 PROVE f \in Taken(t2, o, d)
  <2>1. CASE f \in u
    <3>1. f \in PoolMapped(t) \/ f \in PoolMapped(o) \/ f \in d
      BY <2>1, TakenIs
    <3>2. CASE f \in PoolMapped(t)
      <4>1. PICK v \in Pages : InPool(t, v) /\ t[v].address = f
        BY <3>2, PoolMappedIs
      <4>2. CASE v \notin S
        <5>1. InPool(t2, v) /\ t2[v].address = f
          BY <1>2, <4>1, <4>2 DEF InPool
        <5> QED
          BY <5>1, PoolMappedIs, TakenIs
      <4>3. CASE v \in S
        <5>1. InPool(o, v) /\ o[v].address = f
          BY <4>1, <4>3 DEF InCommon, InPool
        <5> QED
          BY <5>1, PoolMappedIs, TakenIs
      <4> QED
        BY <4>2, <4>3
    <3> QED
      BY <3>1, <3>2, TakenIs
  <2>2. CASE f \notin u
    <3>1. PICK v \in S : t2[v].address = f
      BY <1>3, <1>4, <2>2
    <3>2. InPool(t2, v)
      BY <1>1, <3>1 DEF InPool
    <3> QED
      BY <3>1, <3>2, PoolMappedIs, TakenIs
  <2> QED
    BY <2>1, <2>2
<1>5. ASSUME NEW f \in Taken(t2, o, d) PROVE f \in u2 /\ f \in Pool
  <2>1. f \in Pool
    BY TakenInPool
  <2>2. CASE f \in PoolMapped(t2)
    <3>1. PICK v \in Pages : InPool(t2, v) /\ t2[v].address = f
      BY <2>2, PoolMappedIs
    <3>2. CASE v \notin S
      <4>1. InPool(t, v) /\ t[v].address = f
        BY <1>2, <3>1, <3>2 DEF InPool
      <4> QED
        BY <1>3, <2>1, <4>1, PoolMappedIs, TakenIs
    <3> QED
      BY <1>3, <2>1, <3>1, <3>2
  <2>3. CASE f \in PoolMapped(o) \/ f \in d
    BY <1>3, <2>1, <2>3, TakenIs
  <2> QED
    BY <2>1, <2>2, <2>3, TakenIs
<1> QED
  BY <1>4, <1>5

\* Freeing pages that are not in common takes frames from nobody and loses none.
LEMMA EmptyApart ==
  ASSUME NEW t, NEW o, NEW d, NEW h, NEW u, NEW S \in SUBSET Pages,
         Zeroed(t), S \cap h = {}, Apart(t, o, d, h, u)
  PROVE  LET t2 == UnmapAll(t, S)
             u2 == ReleaseAll(u, t, S)
         IN  /\ Apart(t2, o, d, h, u2)
             /\ u \cap Pool = Taken(t, o, d) => u2 \cap Pool = Taken(t2, o, d)
<1> DEFINE t2 == UnmapAll(t, S)
           u2 == ReleaseAll(u, t, S)
<1>1. \A v \in Pages : /\ v \in S => ~InPool(t2, v)
                       /\ v \notin S => (InPool(t2, v) <=> InPool(t, v))
                       /\ v \notin S => t2[v].address = t[v].address
  BY DEF UnmapAll, InPool
<1>2. u2 = u \ {t[v].address : v \in S}
  BY DEF ReleaseAll
<1> HIDE DEF t2, u2
<1>3. ASSUME NEW v \in S, t[v].address \in Pool PROVE InPool(t, v)
  BY <1>3, NoFrameZero DEF Zeroed, InPool
<1>4. ASSUME NEW f \in Pool, f \in Taken(t2, o, d), NEW v \in S, t[v].address = f PROVE FALSE
  <2>1. InPool(t, v)
    BY <1>3, <1>4
  <2>2. CASE f \in PoolMapped(t2)
    <3>1. PICK w \in Pages : InPool(t2, w) /\ t2[w].address = f
      BY <2>2, PoolMappedIs
    <3>2. w \notin S /\ InPool(t, w) /\ t[w].address = f
      BY <1>1, <3>1
    <3> QED
      BY <1>4, <2>1, <3>2, ExclusiveIs DEF Apart
  <2>3. CASE f \in PoolMapped(o)
    <3>1. PICK w \in Pages : InPool(o, w) /\ o[w].address = f
      BY <2>3, PoolMappedIs
    <3> QED
      BY <1>4, <2>1, <3>1 DEF Apart, Sharing
  <2>4. CASE f \in d
    <3>1. f \in PoolMapped(t)
      BY <1>4, <2>1, PoolMappedIs
    <3> QED
      BY <2>4, <3>1 DEF Apart
  <2> QED
    BY <1>4, <2>2, <2>3, <2>4, TakenIs
<1>5. \A f \in PoolMapped(t2) : f \in PoolMapped(t)
  <2> SUFFICES ASSUME NEW v \in Pages, InPool(t2, v) PROVE t2[v].address \in PoolMapped(t)
    BY PoolMappedIs
  <2> QED
    BY <1>1, PoolMappedIs
<1>6. \A f \in Taken(t2, o, d) : f \in Taken(t, o, d) /\ f \in Pool
  BY <1>5 DEF Taken, PoolMapped
<1>7. Taken(t2, o, d) \subseteq u2
  BY <1>2, <1>4, <1>6 DEF Apart
<1>8. Exclusive(t2) /\ Sharing(t2, o, h)
  <2>1. Exclusive(t2)
    BY <1>1, ExclusiveIs DEF Apart
  <2>2. Sharing(t2, o, h)
    BY <1>1 DEF Apart, Sharing
  <2> QED
    BY <2>1, <2>2
<1>9. Apart(t2, o, d, h, u2)
  BY <1>5, <1>7, <1>8 DEF Apart
<1>10. ASSUME u \cap Pool = Taken(t, o, d), NEW f \in Pool, f \in u2
       PROVE  f \in Taken(t2, o, d)
  <2>1. f \in u /\ \A v \in S : t[v].address # f
    BY <1>2, <1>10
  <2>2. f \in PoolMapped(t) \/ f \in PoolMapped(o) \/ f \in d
    BY <1>10, <2>1, TakenIs
  <2>3. ASSUME f \in PoolMapped(t) PROVE f \in PoolMapped(t2)
    <3>1. PICK v \in Pages : InPool(t, v) /\ t[v].address = f
      BY <2>3, PoolMappedIs
    <3> QED
      BY <1>1, <2>1, <3>1, PoolMappedIs
  <2> QED
    BY <2>2, <2>3, TakenIs
<1> QED
  BY <1>6, <1>7, <1>9, <1>10 DEF t2, u2

\* What changes no frame of the pool changes nothing.
LEMMA SamePoolApart ==
  ASSUME NEW t, NEW t2, NEW o, NEW d, NEW h, NEW h2, NEW u, SamePool(t, t2),
         \A v \in h \ h2 : ~InPool(t, v)
  PROVE  /\ Apart(t, o, d, h, u) => Apart(t2, o, d, h2, u)
         /\ Taken(t2, o, d) = Taken(t, o, d)
<1>1. \A v \in Pages : /\ InPool(t2, v) <=> InPool(t, v)
                       /\ InPool(t2, v) => t2[v].address = t[v].address
  BY DEF SamePool
<1>2. PoolMapped(t2) = PoolMapped(t)
  <2>1. \A f \in PoolMapped(t2) : f \in PoolMapped(t)
    BY <1>1, PoolMappedIs
  <2>2. \A f \in PoolMapped(t) : f \in PoolMapped(t2)
    BY <1>1, PoolMappedIs
  <2> QED
    BY <2>1, <2>2
<1>3. Exclusive(t) => Exclusive(t2)
  BY <1>1, ExclusiveIs
<1>4. Sharing(t, o, h) => Sharing(t2, o, h2)
  BY <1>1 DEF Sharing
<1> QED
  BY <1>2, <1>3, <1>4 DEF Apart, Taken

LEMMA SwapApart ==
  ASSUME NEW t, NEW o, NEW d, NEW h, NEW u
  PROVE  /\ Apart(t, o, d, h, u) => Apart(o, t, d, h, u)
         /\ Taken(o, t, d) = Taken(t, o, d)
BY DEF Apart, Taken, Sharing

\* A page that is not in common takes its frame along when it is traded.
LEMMA TradeApart ==
  ASSUME NEW t, NEW o, NEW d, NEW h, NEW u, NEW v \in Pages, t[v].present, v \notin h,
         Apart(t, o, d, h, u)
  PROVE  LET t2 == UnmapAll(t, {v})
             d2 == d \cup {t[v].address}
         IN  Apart(t2, o, d2, h, u) /\ Taken(t2, o, d2) = Taken(t, o, d)
<1> DEFINE t2 == UnmapAll(t, {v})
           f == t[v].address
           d2 == d \cup {f}
<1>1. \A w \in Pages : /\ InPool(t2, w) <=> InPool(t, w) /\ w # v
                       /\ w # v => t2[w].address = t[w].address
  BY DEF UnmapAll, InPool
<1>2. f \in Pool => InPool(t, v)
  BY DEF InPool
<1> HIDE DEF t2
<1>3. Exclusive(t2) /\ Sharing(t2, o, h)
  <2>1. Exclusive(t2)
    BY <1>1, ExclusiveIs DEF Apart
  <2> QED
    BY <1>1, <2>1 DEF Apart, Sharing
<1>4. \A g \in PoolMapped(t2) : g \in PoolMapped(t)
  BY <1>1, PoolMappedIs
<1>5. \A g \in PoolMapped(t) : g \in PoolMapped(t2) \/ g = f
  BY <1>1, PoolMappedIs
<1>6. f \notin PoolMapped(t2)
  <2> SUFFICES ASSUME NEW w \in Pages, InPool(t2, w), t2[w].address = f PROVE FALSE
    BY PoolMappedIs
  <2>1. InPool(t, w) /\ w # v /\ t[w].address = f
    BY <1>1
  <2>2. InPool(t, v)
    BY <1>2, <2>1 DEF InPool
  <2> QED
    BY <2>1, <2>2, ExclusiveIs DEF Apart
<1>7. f \notin PoolMapped(o)
  <2> SUFFICES ASSUME NEW w \in Pages, InPool(o, w), o[w].address = f PROVE FALSE
    BY PoolMappedIs
  <2>1. InPool(t, v)
    BY <1>2 DEF InPool
  <2> QED
    BY <2>1 DEF Apart, Sharing
<1>8. f \in Pool => f \in PoolMapped(t)
  BY <1>2, PoolMappedIs
<1>9. Taken(t2, o, d2) = Taken(t, o, d)
  <2>1. \A g \in Taken(t2, o, d2) : g \in Taken(t, o, d)
    BY <1>4, <1>8 DEF Taken
  <2>2. PoolMapped(t) \subseteq Pool
    BY DEF PoolMapped
  <2>3. \A g \in Taken(t, o, d) : g \in Taken(t2, o, d2)
    BY <1>5, <2>2 DEF Taken
  <2> QED
    BY <2>1, <2>3
<1>10. d2 \cap (PoolMapped(t2) \cup PoolMapped(o)) = {}
  BY <1>4, <1>6, <1>7 DEF Apart
<1> QED
  BY <1>3, <1>9, <1>10 DEF Apart, t2

\* A traded frame goes to a page that is empty.
LEMMA BringApart ==
  ASSUME NEW t, NEW t2, NEW o, NEW d, NEW h, NEW u, NEW v \in Pages, NEW f \in d,
         ~t[v].present, t2[v].present, t2[v].address = f,
         \A w \in Pages \ {v} : t2[w] = t[w]
  PROVE  /\ Apart(t, o, d, h, u) => Apart(t2, o, d \ {f}, h, u)
         /\ Taken(t2, o, d \ {f}) = Taken(t, o, d)
<1>1. \A w \in Pages : /\ InPool(t, w) => InPool(t2, w) /\ w # v /\ t2[w].address = t[w].address
                       /\ InPool(t2, w) => w = v \/ (InPool(t, w) /\ t2[w].address = t[w].address)
  BY DEF InPool
<1>2. \A g \in PoolMapped(t2) : g \in PoolMapped(t) \/ g = f
  BY <1>1, PoolMappedIs
<1>3. \A g \in PoolMapped(t) : g \in PoolMapped(t2)
  BY <1>1, PoolMappedIs
<1>4. f \in Pool => f \in PoolMapped(t2)
  BY PoolMappedIs DEF InPool
<1>5. Taken(t2, o, d \ {f}) = Taken(t, o, d)
  <2>1. PoolMapped(t2) \subseteq Pool
    BY DEF PoolMapped
  <2>2. \A g \in Taken(t2, o, d \ {f}) : g \in Taken(t, o, d)
    BY <1>2, <2>1 DEF Taken
  <2>3. \A g \in Taken(t, o, d) : g \in Taken(t2, o, d \ {f})
    BY <1>3, <1>4 DEF Taken
  <2> QED
    BY <2>2, <2>3
<1>6. ASSUME Apart(t, o, d, h, u) PROVE Apart(t2, o, d \ {f}, h, u)
  <2>1. f \notin PoolMapped(t) /\ f \notin PoolMapped(o)
    BY <1>6 DEF Apart
  <2>2. \A w \in Pages : /\ InPool(t, w) => t[w].address # f
                         /\ InPool(o, w) => o[w].address # f
    BY <2>1, PoolMappedIs
  <2>3. Exclusive(t2)
    BY <1>1, <1>6, <2>2, ExclusiveIs DEF Apart
  <2>4. Sharing(t2, o, h)
    BY <1>1, <1>6, <2>2 DEF Apart, Sharing
  <2>5. (d \ {f}) \cap (PoolMapped(t2) \cup PoolMapped(o)) = {}
    BY <1>2, <1>6 DEF Apart
  <2> QED
    BY <1>5, <1>6, <2>3, <2>4, <2>5 DEF Apart
<1> QED
  BY <1>5, <1>6

\* A copy has everything in common with what it was made from.
LEMMA CopyApart ==
  ASSUME NEW t, NEW d, NEW h, NEW u, Apart(t, Absent, d, h, u)
  PROVE  Apart(t, t, d, Mapped(t), u)
<1>1. Sharing(t, t, Mapped(t))
  BY ExclusiveIs DEF Apart, Sharing, Mapped, InPool
<1> QED
  BY <1>1 DEF Apart, Taken

LEMMA CopyTaken ==
  ASSUME NEW t, NEW d
  PROVE  Taken(t, t, d) = Taken(t, Absent, d)
<1>1. PoolMapped(Absent) = {}
  BY DEF PoolMapped, Mapped, Absent
<1> QED
  BY <1>1 DEF Taken

----------------------------------------------------------------------------
LEMMA SpacesInitInv == SpacesInit => SpacesInv
<1> SUFFICES ASSUME SpacesInit PROVE SpacesInv
  OBVIOUS
<1>1. Inv /\ Init
  BY InitInv DEF SpacesInit
<1>2. /\ TypeOK /\ Zeroed(kernel_tables) /\ Exclusive(kernel_tables)
      /\ Freeable /\ HeldMapped /\ ReservedKept
  BY <1>1 DEF Inv, Sound, ReservedKept
<1>3. /\ current = "kernel" /\ other = Space(Absent, {}, {}) /\ window = <<>>
      /\ forked = FALSE /\ traded = {} /\ inherited = {} /\ misuse = {}
  BY DEF SpacesInit
<1>4. /\ pmem_used = Reserved /\ held = {} /\ breach = {}
      /\ \A v \in Pages : kernel_tables[v].address \in Reserved /\ ~kernel_tables[v].user
  <2>1. \A v \in Pages : kernel_tables[v].address \in Reserved /\ ~kernel_tables[v].user
    <3>1. 0 \in Reserved
      BY SizesAssumption, ReservedAssumption
    <3> QED
      BY <1>1, <3>1, BootMapAssumption DEF Init
  <2> QED
    BY <1>1, <2>1 DEF Init
<1>5. PoolMapped(kernel_tables) = {}
  <2> SUFFICES ASSUME NEW v \in Pages, InPool(kernel_tables, v) PROVE FALSE
    BY PoolMappedIs
  <2> QED
    BY <1>4 DEF InPool, Pool
<1>6. other.tables = Absent /\ other.held = {} /\ other.lent = {}
  BY <1>3 DEF Space
<1>7. PoolMapped(Absent) = {} /\ Exclusive(Absent) /\ Zeroed(Absent)
  BY DEF PoolMapped, Exclusive, Mapped, Zeroed, Absent
<1>8. Absent \in [Pages -> Entry]
  BY NoFrameZero DEF Absent, Entry
<1>9. Lasting
  <2>1. SpacesTypeOK
    BY <1>2, <1>3, <1>6, <1>8 DEF SpacesTypeOK
  <2> QED
    BY <1>2, <1>3, <1>6, <1>7, <2>1 DEF Lasting, InCommon
<1>10. FramesApart
  <2>1. Sharing(kernel_tables, Absent, {})
    BY DEF Sharing, InPool, Absent
  <2> QED
    BY <1>2, <1>3, <1>5, <1>6, <1>7, <2>1 DEF FramesApart, Apart, Taken
<1>11. AllAccounted
  BY <1>3, <1>4, <1>5, <1>6, <1>7 DEF AllAccounted, Taken, Pool
<1>12. SameBits
  BY <1>3 DEF SameBits
<1>13. Untouched
  <2>1. HoldsPool(kernel_tables, held)
    BY <1>4 DEF HoldsPool
  <2>2. HoldsPool(Absent, {})
    BY DEF HoldsPool, Absent
  <2>3. DOMAIN window = {}
    BY <1>3
  <2> QED
    BY <1>2, <1>3, <1>6, <2>1, <2>2, <2>3 DEF Untouched, OwnPages
<1> QED
  BY <1>9, <1>10, <1>11, <1>12, <1>13 DEF SpacesInv

----------------------------------------------------------------------------
LEMMA WindowPages ==
  ASSUME SpacesTypeOK
  PROVE  \A i \in DOMAIN window : window[i][1] \in Pages
<1>1. CASE window = <<>>
  <2>1. DOMAIN window = {}
    BY <1>1
  <2> QED
    BY <2>1
<1>2. CASE window \in [1 .. TablePages -> Pages \X Frames]
  BY <1>2
<1> QED
  BY <1>1, <1>2 DEF SpacesTypeOK

\* A call that fills pages S, absent ones for the caller or user pages of his:
\* alloc_page, map_page_to and clone_user_pages.
LEMMA FillInv ==
  ASSUME SpacesInv, NEW S \in SUBSET Pages,
         Fills(kernel_tables, kernel_tables', pmem_used, pmem_used', S),
         \A v \in S : ~kernel_tables[v].present \/ kernel_tables[v].user,
         held \subseteq held', held' \subseteq held \cup S, lent' = lent,
         halted' \in BOOLEAN, UNCHANGED <<breach, current, other, window, traded>>,
         inherited' = inherited \ S,
         misuse \subseteq misuse', misuse' \subseteq misuse \cup {"again"},
         misuse' = {} => \A v \in S : kernel_tables[v].present => v \in inherited,
         forked' = (forked \/ (Cloned /\ forked')),
         forked' => forked \/ UserPages(kernel_tables) \subseteq S
  PROVE  SpacesInv'
<1>1. Lasting /\ FramesApart /\ AllAccounted /\ SameBits /\ Untouched
  BY DEF SpacesInv
<1>2. UNCHANGED <<breach, current, other, window, traded>>
  OBVIOUS
<1>3. /\ kernel_tables' \in [Pages -> Entry]
      /\ \A v \in S : /\ kernel_tables'[v].present
                      /\ kernel_tables'[v].address \in FreeFrames(pmem_used)
                      /\ kernel_tables'[v].user = kernel_tables[v].user
      /\ \A v \in Pages \ S : kernel_tables'[v] = kernel_tables[v]
      /\ pmem_used' = pmem_used \cup {kernel_tables'[v].address : v \in S}
  BY DEF Fills
<1>4. SpacesTypeOK /\ TypeOK /\ InCommon(kernel_tables, other.tables, inherited)
      /\ inherited \subseteq Pages
  BY <1>1 DEF Lasting, SpacesTypeOK
<1>5. forked' \in BOOLEAN /\ (forked' => Cloned) /\ misuse' \subseteq Misuses
  BY <1>1, <1>4 DEF SpacesTypeOK, Misuses, Lasting
<1>6. Lasting'
  <2>1. pmem_used' \subseteq Frames
    BY <1>3, <1>4, FreeFramesAre DEF TypeOK
  <2>2. TypeOK'
    BY <1>2, <1>3, <1>4, <2>1 DEF TypeOK
  <2>3. SpacesTypeOK'
    BY <1>2, <1>4, <1>5, <2>2 DEF SpacesTypeOK
  <2>4. Zeroed(kernel_tables')
    BY <1>1, <1>3 DEF Lasting, Zeroed
  <2>5. InCommon(kernel_tables', other.tables, inherited')
    BY <1>3, <1>4 DEF InCommon
  <2> QED
    BY <1>1, <1>2, <1>5, <2>3, <2>4, <2>5 DEF Lasting, Cloned
<1>7. FramesApart'
  <2> SUFFICES ASSUME NoneGivenUp
               PROVE  Apart(kernel_tables', other.tables, traded, inherited', pmem_used')
    BY <1>2 DEF FramesApart, NoneGivenUp
  <2> QED
    BY <1>1, FillApart DEF FramesApart
<1>8. AllAccounted'
  <2> SUFFICES ASSUME misuse' = {}
               PROVE  pmem_used' \cap Pool = Taken(kernel_tables', other.tables, traded)
    BY <1>2 DEF AllAccounted
  <2>1. \A v \in S : InPool(kernel_tables, v) => v \in inherited
    BY DEF InPool
  <2>2. pmem_used \cap Pool = Taken(kernel_tables, other.tables, traded)
    BY <1>1 DEF AllAccounted
  <2> QED
    BY <1>4, <2>1, <2>2, FillTaken
<1>9. SameBits'
  <2> SUFFICES ASSUME "lent" \notin misuse, NEW v \in inherited, v \notin S
               PROVE  /\ kernel_tables'[v].user = other.tables[v].user
                      /\ forked' => ~kernel_tables'[v].user
    BY <1>2 DEF SameBits
  <2>1. kernel_tables'[v] = kernel_tables[v] /\ kernel_tables[v].present
    BY <1>3, <1>4 DEF InCommon
  <2>2. ASSUME UserPages(kernel_tables) \subseteq S PROVE ~kernel_tables[v].user
    BY <1>4, <2>1, <2>2 DEF UserPages
  <2> QED
    BY <1>1, <2>1, <2>2 DEF SameBits
<1>10. Untouched'
  <2> SUFFICES ASSUME NoneStale PROVE Untouched'
    BY <1>2 DEF Untouched, NoneStale
  <2>1. /\ ReservedKept /\ HoldsPool(kernel_tables, held)
        /\ HoldsPool(other.tables, other.held) /\ traded \subseteq Pool
        /\ OwnPages(kernel_tables, held, window)
        /\ OwnPages(other.tables, other.held, window)
    BY <1>1 DEF Untouched
  <2>2. \A v \in S : InPool(kernel_tables', v)
    BY <1>3, <2>1, FreeInPool DEF ReservedKept, InPool
  <2>3. HoldsPool(kernel_tables', held')
    BY <1>3, <1>4, <2>1, <2>2 DEF HoldsPool, InPool, TypeOK
  <2>4. OwnPages(kernel_tables', held', window)
    <3> SUFFICES ASSUME NEW i \in DOMAIN window
                 PROVE  LET v == window[i][1]
                        IN  /\ InPool(kernel_tables', v)
                            /\ kernel_tables'[v].address = window[i][2]
                            /\ ~kernel_tables'[v].user /\ v \notin held'
      BY DEF OwnPages
    <3> DEFINE v == window[i][1]
    <3>1. InPool(kernel_tables, v) /\ v \in Pages /\ v \notin S
      <4>1. InPool(kernel_tables, v) /\ ~kernel_tables[v].user
        BY <2>1 DEF OwnPages
      <4>2. v \in Pages
        BY <1>4, WindowPages
      <4> QED
        BY <4>1, <4>2 DEF InPool
    <3> QED
      BY <1>3, <2>1, <3>1 DEF OwnPages, InPool
  <2>5. ReservedKept'
    BY <1>3, <2>1 DEF ReservedKept
  <2> QED
    BY <1>2, <2>1, <2>3, <2>4, <2>5 DEF Untouched
<1> QED
  BY <1>6, <1>7, <1>8, <1>9, <1>10 DEF SpacesInv

\* A call that frees pages S: free_page and free_all_user_pages.
LEMMA EmptyInv ==
  ASSUME SpacesInv, NEW S \in SUBSET Pages,
         kernel_tables' = UnmapAll(kernel_tables, S),
         pmem_used' = ReleaseAll(pmem_used, kernel_tables, S),
         held' \subseteq held, lent' \subseteq held', halted' \in BOOLEAN,
         breach \subseteq breach', breach' \subseteq Breaches, UNCHANGED spaces,
         inherited' = inherited \ S, MisuseIf(S \cap inherited # {}, "freed"),
         NoneStale' => /\ S \cap held' = {}
                       /\ \A v \in S : v \in held \/ (kernel_tables[v].present /\ kernel_tables[v].user)
  PROVE  SpacesInv'
<1>1. Lasting /\ FramesApart /\ AllAccounted /\ SameBits /\ Untouched
  BY DEF SpacesInv
<1>2. UNCHANGED <<current, other, window, forked, traded>>
  BY DEF spaces
<1>3. \A v \in Pages :
        /\ kernel_tables'[v].user = kernel_tables[v].user
        /\ v \in S => ~kernel_tables'[v].present /\ kernel_tables'[v].address = 0
        /\ v \notin S => kernel_tables'[v] = kernel_tables[v]
  BY DEF UnmapAll
<1>4. SpacesTypeOK /\ TypeOK /\ InCommon(kernel_tables, other.tables, inherited)
      /\ inherited \subseteq Pages
  BY <1>1 DEF Lasting, SpacesTypeOK
<1>5. /\ misuse \subseteq misuse' /\ misuse' \subseteq Misuses
      /\ S \cap inherited # {} => "freed" \in misuse'
      /\ S \cap inherited = {} => inherited' = inherited /\ misuse' = misuse
      /\ misuse' \subseteq misuse \cup {"freed"}
  BY <1>4 DEF MisuseIf, Misuses, SpacesTypeOK
<1>6. Lasting'
  <2>1. kernel_tables' \in [Pages -> Entry]
    BY <1>4, NoFrameZero DEF UnmapAll, TypeOK, Entry
  <2>2. TypeOK'
    BY <1>4, <2>1 DEF TypeOK, ReleaseAll
  <2>3. SpacesTypeOK'
    BY <1>2, <1>4, <1>5, <2>2 DEF SpacesTypeOK
  <2>4. Zeroed(kernel_tables')
    BY <1>1, <1>3 DEF Lasting, Zeroed
  <2>5. InCommon(kernel_tables', other.tables, inherited')
    BY <1>3, <1>4 DEF InCommon
  <2> QED
    BY <1>1, <1>2, <2>3, <2>4, <2>5 DEF Lasting, Cloned
<1>7. FramesApart'
  <2> SUFFICES ASSUME NoneGivenUp'
               PROVE  Apart(kernel_tables', other.tables, traded, inherited', pmem_used')
    BY <1>2 DEF FramesApart
  <2>1. S \cap inherited = {} /\ NoneGivenUp
    BY <1>5 DEF NoneGivenUp
  <2> QED
    BY <1>1, <1>5, <2>1, EmptyApart DEF FramesApart, Lasting
<1>8. AllAccounted'
  <2> SUFFICES ASSUME misuse' = {}
               PROVE  pmem_used' \cap Pool = Taken(kernel_tables', other.tables, traded)
    BY <1>2 DEF AllAccounted
  <2>1. S \cap inherited = {} /\ NoneGivenUp /\ misuse = {}
    BY <1>5 DEF NoneGivenUp
  <2>2. Apart(kernel_tables, other.tables, traded, inherited, pmem_used)
    BY <1>1, <2>1 DEF FramesApart
  <2>3. Zeroed(kernel_tables)
    BY <1>1 DEF Lasting
  <2>4. pmem_used \cap Pool = Taken(kernel_tables, other.tables, traded)
    BY <1>1, <2>1 DEF AllAccounted
  <2>5. LET t2 == UnmapAll(kernel_tables, S)
            u2 == ReleaseAll(pmem_used, kernel_tables, S)
        IN  /\ Apart(t2, other.tables, traded, inherited, u2)
            /\ pmem_used \cap Pool = Taken(kernel_tables, other.tables, traded)
                 => u2 \cap Pool = Taken(t2, other.tables, traded)
    BY <2>1, <2>2, <2>3, EmptyApart
  <2> QED
    BY <2>4, <2>5
<1>9. SameBits'
  BY <1>1, <1>2, <1>3, <1>4, <1>5 DEF SameBits
<1>10. Untouched'
  <2> SUFFICES ASSUME NoneStale' PROVE Untouched'
    BY DEF Untouched
  <2>1. NoneStale
    BY <1>5 DEF NoneStale
  <2>2. /\ ReservedKept /\ HoldsPool(kernel_tables, held)
        /\ HoldsPool(other.tables, other.held) /\ traded \subseteq Pool
        /\ OwnPages(kernel_tables, held, window)
        /\ OwnPages(other.tables, other.held, window)
    BY <1>1, <2>1 DEF Untouched
  <2>3. \A v \in S : kernel_tables[v].address \in Pool
    BY <2>2 DEF HoldsPool, InPool
  <2>4. ReservedKept'
    BY <2>2, <2>3 DEF ReservedKept, ReleaseAll, Pool
  <2>5. HoldsPool(kernel_tables', held')
    BY <1>3, <1>4, <2>2 DEF HoldsPool, InPool, TypeOK
  <2>6. OwnPages(kernel_tables', held', window)
    <3> SUFFICES ASSUME NEW i \in DOMAIN window
                 PROVE  LET v == window[i][1]
                        IN  /\ InPool(kernel_tables', v)
                            /\ kernel_tables'[v].address = window[i][2]
                            /\ ~kernel_tables'[v].user /\ v \notin held'
      BY DEF OwnPages
    <3> DEFINE v == window[i][1]
    <3>1. v \in Pages
      BY <1>4, WindowPages
    <3>2. v \notin S
      BY <2>2 DEF OwnPages
    <3> QED
      BY <1>3, <2>2, <3>1, <3>2 DEF OwnPages, InPool
  <2> QED
    BY <1>2, <2>2, <2>4, <2>5, <2>6 DEF Untouched
<1> QED
  BY <1>6, <1>7, <1>8, <1>9, <1>10 DEF SpacesInv

\* mark_user: no frame is touched, and the bit may change on a held page only.
LEMMA LendInv ==
  ASSUME SpacesInv, NEW v \in Pages, NEW user \in BOOLEAN, Lend(v, user)
  PROVE  SpacesInv'
<1>1. Lasting /\ FramesApart /\ AllAccounted /\ SameBits /\ Untouched
  BY DEF SpacesInv
<1>2. /\ UNCHANGED <<current, other, window, forked, traded, inherited>>
      /\ UNCHANGED <<pmem_used, halted, held, breach>>
      /\ v \in held /\ lent' \subseteq lent \cup {v}
  BY DEF Lend, mark_user, spaces
<1>3. SpacesTypeOK /\ TypeOK /\ InCommon(kernel_tables, other.tables, inherited)
      /\ inherited \subseteq Pages
  BY <1>1 DEF Lasting, SpacesTypeOK
<1>4. /\ kernel_tables' \in [Pages -> Entry]
      /\ \A w \in Pages : /\ kernel_tables'[w].present = kernel_tables[w].present
                          /\ kernel_tables'[w].address = kernel_tables[w].address
                          /\ w # v => kernel_tables'[w].user = kernel_tables[w].user
      /\ kernel_tables'[v].user = user
  BY <1>3 DEF Lend, mark_user, TypeOK, Entry
<1>5. /\ misuse \subseteq misuse' /\ misuse' \subseteq misuse \cup {"lent"}
      /\ misuse' \subseteq Misuses
      /\ v \in inherited /\ user # kernel_tables[v].user => "lent" \in misuse'
  BY <1>3 DEF Lend, MisuseIf, Misuses, SpacesTypeOK
<1>6. SamePool(kernel_tables, kernel_tables')
  BY <1>4 DEF SamePool, InPool
<1>7. Lasting'
  <2>1. TypeOK'
    BY <1>2, <1>3, <1>4 DEF TypeOK
  <2>2. SpacesTypeOK'
    BY <1>2, <1>3, <1>5, <2>1 DEF SpacesTypeOK
  <2>3. Zeroed(kernel_tables')
    BY <1>1, <1>4 DEF Lasting, Zeroed
  <2>4. InCommon(kernel_tables', other.tables, inherited)
    BY <1>3, <1>4 DEF InCommon
  <2> QED
    BY <1>1, <1>2, <2>2, <2>3, <2>4 DEF Lasting, Cloned
<1>8. FramesApart'
  <2> SUFFICES ASSUME NoneGivenUp
               PROVE  Apart(kernel_tables', other.tables, traded, inherited, pmem_used)
    BY <1>2, <1>5 DEF FramesApart, NoneGivenUp
  <2> QED
    BY <1>1, <1>6, SamePoolApart DEF FramesApart
<1>9. AllAccounted'
  <2>1. Taken(kernel_tables', other.tables, traded) = Taken(kernel_tables, other.tables, traded)
    BY <1>6, SamePoolApart
  <2> QED
    BY <1>1, <1>2, <1>5, <2>1 DEF AllAccounted
<1>10. SameBits'
  <2> SUFFICES ASSUME "lent" \notin misuse', NEW w \in inherited
               PROVE  /\ kernel_tables'[w].user = other.tables[w].user
                      /\ forked => ~kernel_tables'[w].user
    BY <1>2 DEF SameBits
  <2>1. kernel_tables'[w].user = kernel_tables[w].user
    BY <1>3, <1>4, <1>5
  <2> QED
    BY <1>1, <1>5, <2>1 DEF SameBits
<1>11. Untouched'
  <2> SUFFICES ASSUME NoneStale PROVE Untouched'
    BY <1>2, <1>5 DEF Untouched, NoneStale
  <2>1. /\ ReservedKept /\ HoldsPool(kernel_tables, held)
        /\ HoldsPool(other.tables, other.held) /\ traded \subseteq Pool
        /\ OwnPages(kernel_tables, held, window)
        /\ OwnPages(other.tables, other.held, window)
    BY <1>1 DEF Untouched
  <2>2. HoldsPool(kernel_tables', held)
    BY <1>2, <1>3, <1>4, <2>1 DEF HoldsPool, InPool, TypeOK
  <2>3. OwnPages(kernel_tables', held, window)
    <3> SUFFICES ASSUME NEW i \in DOMAIN window
                 PROVE  LET w == window[i][1]
                        IN  /\ InPool(kernel_tables', w)
                            /\ kernel_tables'[w].address = window[i][2]
                            /\ ~kernel_tables'[w].user /\ w \notin held
      BY DEF OwnPages
    <3> DEFINE w == window[i][1]
    <3>1. w \in Pages
      BY <1>3, WindowPages
    <3>2. w # v
      BY <1>2, <2>1 DEF OwnPages
    <3> QED
      BY <1>4, <2>1, <3>1, <3>2 DEF OwnPages, InPool
  <2> QED
    BY <1>2, <2>1, <2>2, <2>3 DEF Untouched, ReservedKept
<1> QED
  BY <1>7, <1>8, <1>9, <1>10, <1>11 DEF SpacesInv

----------------------------------------------------------------------------
\* The user pages are numbered from 1 on, without gaps.
LEMMA OrderNumbers ==
  ASSUME NEW t
  PROVE  LET n == Cardinality(UserPages(t))
         IN  /\ n \in Nat
             /\ \A v \in UserPages(t) : Order(t, v) \in 1 .. n
             /\ \A v, w \in UserPages(t) : Order(t, v) = Order(t, w) => v = w
             /\ \A i \in 1 .. n : \E v \in UserPages(t) : Order(t, v) = i
<1> DEFINE U == UserPages(t)
           n == Cardinality(U)
           below(v) == {w \in U : w <= v}
           order == [v \in U |-> Order(t, v)]
<1>1. U \subseteq Pages /\ U \subseteq Int
  BY SizesAssumption DEF UserPages, Pages
<1>2. IsFiniteSet(Pages)
  BY SizesAssumption, FS_Interval DEF Pages
<1>3. IsFiniteSet(U) /\ n \in Nat
  BY <1>1, <1>2, FS_Subset, FS_CardinalityType
<1>4. \A v \in U : IsFiniteSet(below(v)) /\ Cardinality(below(v)) <= n
                  /\ Cardinality(below(v)) \in Nat
  <2> TAKE v \in U
  <2>1. below(v) \in SUBSET U
    OBVIOUS
  <2> QED
    BY <1>3, <2>1, FS_Subset, FS_CardinalityType
<1>5. \A v \in U : Order(t, v) = Cardinality(below(v))
  BY DEF Order
<1>6. \A v \in U : Cardinality(below(v)) # 0
  <2> TAKE v \in U
  <2>1. v \in below(v)
    BY <1>1
  <2> QED
    BY <1>4, <2>1, FS_EmptySet
<1>7. ASSUME NEW v \in U, NEW w \in U, Order(t, v) = Order(t, w), v <= w PROVE v = w
  <2>1. below(v) \in SUBSET below(w)
    BY <1>1, <1>7
  <2>2. Cardinality(below(w)) = Cardinality(below(v))
    BY <1>5, <1>7
  <2>3. below(w) = below(v)
    BY <1>4, <2>1, <2>2, FS_Subset
  <2>4. w \in below(v)
    BY <1>1, <2>3
  <2> QED
    BY <1>1, <1>7, <2>4
<1>8. \A v, w \in U : Order(t, v) = Order(t, w) => v = w
  <2> TAKE v, w \in U
  <2>1. v <= w \/ w <= v
    BY <1>1
  <2> QED
    BY <1>7, <2>1
<1>9. \A v \in U : Order(t, v) \in 1 .. n
  <2> TAKE v \in U
  <2>1. Cardinality(below(v)) \in 1 .. n
    <3> HIDE DEF below, n
    <3> QED
      BY <1>3, <1>4, <1>6
  <2> QED
    BY <1>5, <2>1
<1>10. order \in Injection(U, 1 .. n)
  <2> HIDE DEF U, n
  <2> QED
    BY <1>8, <1>9 DEF Injection, IsInjective
<1>11. IsFiniteSet(1 .. n) /\ Cardinality(1 .. n) = n
  <2> HIDE DEF n
  <2>1. 1 \in Int /\ n \in Int /\ (1 > n => n = 0) /\ n - 1 + 1 = n
    BY <1>3
  <2> QED
    BY <2>1, FS_Interval
<1>12. order \in Surjection(U, 1 .. n)
  BY <1>10, <1>11, FS_Injection
<1>13. \A i \in 1 .. n : \E v \in U : order[v] = i
  <2> HIDE DEF U, n, order
  <2> QED
    BY <1>12 DEF Surjection
<1> QED
  BY <1>3, <1>8, <1>9, <1>13

\* clone_user_pages fills the pages it moves.
LEMMA MovedFills ==
  ASSUME NEW t \in [Pages -> Entry], NEW u,
         NEW fs \in LowestFree(u, Cardinality(UserPages(t))),
         NEW t2, t2 = [v \in Pages |->
                         IF v \in Moved(t, fs)
                         THEN [t[v] EXCEPT !.address = fs[Order(t, v)]] ELSE t[v]]
  PROVE  /\ Fills(t, t2, u, ClaimAll(u, fs), Moved(t, fs))
         /\ Len(fs) = Cardinality(UserPages(t)) => UserPages(t) \subseteq Moved(t, fs)
<1> DEFINE n == Cardinality(UserPages(t))
           S == Moved(t, fs)
<1>1. n \in Nat
  BY OrderNumbers
<1>2. /\ Len(fs) \in 0 .. n /\ DOMAIN fs = 1 .. Len(fs)
      /\ \A i \in DOMAIN fs : fs[i] \in FreeFrames(u)
      /\ \A i, j \in DOMAIN fs : fs[i] = fs[j] => i = j
  BY <1>1, LowestFreeShape
<1>3. /\ \A v \in UserPages(t) : Order(t, v) \in 1 .. n
      /\ \A v, w \in UserPages(t) : Order(t, v) = Order(t, w) => v = w
      /\ \A i \in 1 .. n : \E v \in UserPages(t) : Order(t, v) = i
  BY OrderNumbers
<1>4. /\ UserPages(t) \subseteq Pages
      /\ \A v \in UserPages(t) : t[v].present
  BY DEF UserPages
<1>5. \A v \in S : v \in UserPages(t) /\ Order(t, v) \in DOMAIN fs
  BY DEF Moved
<1>6. \A v \in Pages : t[v] \in Entry
  OBVIOUS
<1>7. \A v \in S : /\ t2[v] = [t[v] EXCEPT !.address = fs[Order(t, v)]]
                   /\ t2[v].present /\ t2[v].address = fs[Order(t, v)]
                   /\ t2[v].user = t[v].user
                   /\ t2[v] \in Entry
  <2> TAKE v \in S
  <2>1. v \in Pages /\ t[v] \in Entry /\ t[v].present
    BY <1>4, <1>5
  <2>2. t2[v] = [t[v] EXCEPT !.address = fs[Order(t, v)]]
    BY <2>1
  <2>3. fs[Order(t, v)] \in Frames
    BY <1>2, <1>5, FreeFramesAre
  <2> QED
    BY <2>1, <2>2, <2>3 DEF Entry
<1>8. \A v \in Pages \ S : t2[v] = t[v]
  OBVIOUS
<1>9. t2 \in [Pages -> Entry]
  BY <1>6, <1>7, <1>8
<1>10. \A i \in DOMAIN fs : \E v \in S : Order(t, v) = i
  <2> TAKE i \in DOMAIN fs
  <2>1. PICK v \in UserPages(t) : Order(t, v) = i
    BY <1>1, <1>2, <1>3
  <2> QED
    BY <2>1 DEF Moved
<1>11. {fs[i] : i \in DOMAIN fs} = {t2[v].address : v \in S}
  <2>1. \A i \in DOMAIN fs : \E v \in S : t2[v].address = fs[i]
    BY <1>7, <1>10
  <2>2. \A v \in S : \E i \in DOMAIN fs : t2[v].address = fs[i]
    BY <1>5, <1>7
  <2> DEFINE A == {fs[i] : i \in DOMAIN fs}
             B == {t2[v].address : v \in S}
  <2> SUFFICES A \subseteq B /\ B \subseteq A
    OBVIOUS
  <2>3. \A x \in A : x \in B
    <3> TAKE x \in A
    <3>1. PICK i \in DOMAIN fs : x = fs[i]
      OBVIOUS
    <3>2. PICK v \in S : t2[v].address = fs[i]
      BY <2>1
    <3> QED
      BY <3>1, <3>2
  <2>4. \A x \in B : x \in A
    BY <2>2
  <2> QED
    BY <2>3, <2>4
<1>12. Fills(t, t2, u, ClaimAll(u, fs), S)
  <2> HIDE DEF S
  <2>1. \A v \in S : t2[v].address \in FreeFrames(u)
    BY <1>2, <1>5, <1>7
  <2>2. \A v, w \in S : t2[v].address = t2[w].address => v = w
    <3> TAKE v, w \in S
    <3>1. /\ v \in UserPages(t) /\ Order(t, v) \in DOMAIN fs
          /\ w \in UserPages(t) /\ Order(t, w) \in DOMAIN fs
      BY <1>5
    <3>2. t2[v].address = fs[Order(t, v)] /\ t2[w].address = fs[Order(t, w)]
      BY <1>7
    <3>3. fs[Order(t, v)] = fs[Order(t, w)] => Order(t, v) = Order(t, w)
      BY <1>2, <3>1
    <3> QED
      BY <1>3, <3>1, <3>2, <3>3
  <2> QED
    BY <1>7, <1>8, <1>9, <1>11, <2>1, <2>2 DEF Fills, ClaimAll
<1>13. Len(fs) = n => UserPages(t) \subseteq S
  BY <1>2, <1>3 DEF Moved
<1> QED
  BY <1>12, <1>13

\* A call that changes the entry of one page v, and no bit of the bitmap:
\* trade_vaddr, map_page_secretly, map_paddr and unmap_secret_page.
LEMMA EntryInv ==
  ASSUME SpacesInv, NEW v \in Pages,
         kernel_tables' \in [Pages -> Entry],
         \A w \in Pages \ {v} : kernel_tables'[w] = kernel_tables[w],
         ~kernel_tables'[v].present => kernel_tables'[v].address = 0,
         UNCHANGED <<pmem_used, halted, breach, current, other, window, forked>>,
         inherited' = inherited \ {v}, traded' \subseteq Frames,
         held' \subseteq held \cup {v}, lent' \subseteq held',
         misuse \subseteq misuse', misuse' \subseteq Misuses,
         NoneGivenUp' => Apart(kernel_tables', other.tables, traded', inherited', pmem_used),
         misuse' = {} => Taken(kernel_tables', other.tables, traded')
                           = Taken(kernel_tables, other.tables, traded),
         NoneStale' => /\ traded' \subseteq Pool
                       /\ v \in held \/ ~InPool(kernel_tables, v)
                       /\ v \in held' \/ (kernel_tables'[v].present /\ kernel_tables'[v].user)
                            => InPool(kernel_tables', v)
  PROVE  SpacesInv'
<1>1. Lasting /\ FramesApart /\ AllAccounted /\ SameBits /\ Untouched
  BY DEF SpacesInv
<1>2. SpacesTypeOK /\ TypeOK /\ InCommon(kernel_tables, other.tables, inherited)
      /\ inherited \subseteq Pages
  BY <1>1 DEF Lasting, SpacesTypeOK
<1>3. Lasting'
  <2>1. TypeOK'
    BY <1>2 DEF TypeOK
  <2>2. SpacesTypeOK'
    BY <1>2, <2>1 DEF SpacesTypeOK
  <2>3. Zeroed(kernel_tables')
    BY <1>1 DEF Lasting, Zeroed
  <2>4. InCommon(kernel_tables', other.tables, inherited')
    BY <1>2 DEF InCommon
  <2> QED
    BY <1>1, <2>2, <2>3, <2>4 DEF Lasting, Cloned
<1>4. FramesApart'
  BY DEF FramesApart
<1>5. AllAccounted'
  BY <1>1 DEF AllAccounted
<1>6. SameBits'
  BY <1>1, <1>2 DEF SameBits
<1>7. Untouched'
  <2> SUFFICES ASSUME NoneStale' PROVE Untouched'
    BY DEF Untouched
  <2>1. NoneStale
    BY DEF NoneStale
  <2>2. /\ ReservedKept /\ HoldsPool(kernel_tables, held)
        /\ HoldsPool(other.tables, other.held)
        /\ OwnPages(kernel_tables, held, window)
        /\ OwnPages(other.tables, other.held, window)
    BY <1>1, <2>1 DEF Untouched
  <2>3. HoldsPool(kernel_tables', held')
    <3>1. \A w \in held' : InPool(kernel_tables', w)
      BY <1>2, <2>2 DEF HoldsPool, InPool, TypeOK
    <3>2. ASSUME NEW w \in Pages, kernel_tables'[w].present, kernel_tables'[w].user
          PROVE  kernel_tables'[w].address \in Pool
      BY <2>2, <3>2 DEF HoldsPool, InPool
    <3> QED
      BY <3>1, <3>2 DEF HoldsPool
  <2>4. OwnPages(kernel_tables', held', window)
    <3> SUFFICES ASSUME NEW i \in DOMAIN window
                 PROVE  LET w == window[i][1]
                        IN  /\ InPool(kernel_tables', w)
                            /\ kernel_tables'[w].address = window[i][2]
                            /\ ~kernel_tables'[w].user /\ w \notin held'
      BY DEF OwnPages
    <3> DEFINE w == window[i][1]
    <3>1. w \in Pages
      BY <1>2, WindowPages
    <3>2. InPool(kernel_tables, w) /\ w \notin held
      BY <2>2 DEF OwnPages
    <3>3. w # v
      BY <3>2
    <3> QED
      BY <2>2, <3>1, <3>3 DEF OwnPages, InPool
  <2> QED
    BY <2>2, <2>3, <2>4 DEF Untouched, ReservedKept
<1> QED
  BY <1>3, <1>4, <1>5, <1>6, <1>7 DEF SpacesInv

----------------------------------------------------------------------------
\* The steps.

LEMMA AllocPageInv ==
  ASSUME SpacesInv, alloc_page(1), Within({})
  PROVE  SpacesInv'
<1>1. /\ kernel_tables \in [Pages -> Entry] /\ halted \in BOOLEAN
      /\ misuse \subseteq Misuses /\ forked \in BOOLEAN /\ (forked => Cloned)
  BY DEF SpacesInv, Lasting, SpacesTypeOK, TypeOK
<1>2. 1 \in 1 .. MaxPages
  BY SizesAssumption
<1>3. PICK o \in AllocOutcomes(kernel_tables, pmem_used, 1) :
        /\ Allocate(o)
        /\ IF o.fault THEN Halt ELSE Give(Block(o, 1)) /\ UNCHANGED <<halted, lent>>
  BY DEF alloc_page
<1> DEFINE S == IF o.frames = <<>> THEN {} ELSE {o.start}
<1>4. /\ o.start \in Pages
      /\ o.frames \in LowestFree(pmem_used, 1) \/ o.frames = <<>>
      /\ Len(o.frames) \in 0 .. 1
      /\ ~Wraps(o) => \A v \in Run(o.start, Len(o.frames)) : ~kernel_tables[v].present
      /\ o.fault => o.frames = <<>>
  BY <1>2, AllocFacts
<1>5. ~Wraps(o)
  <2>1. o.start \in 0 .. NPages - 1 /\ Len(o.frames) \in 0 .. 1 /\ NPages \in Nat
    BY <1>4, SizesAssumption DEF Pages
  <2>2. \A a, b : a \in 0 .. NPages - 1 /\ b \in 0 .. 1 => ~(a + b > NPages)
    BY <2>1
  <2> QED
    BY <2>1, <2>2 DEF Wraps
<1>6. /\ Fills(kernel_tables, kernel_tables', pmem_used, pmem_used', S)
      /\ o.frames # <<>> => Len(o.frames) = 1
  BY <1>1, <1>3, <1>4, OneFills DEF Allocate
<1>7. Run(o.start, 1) = {o.start}
  BY <1>4, SizesAssumption DEF Run, Slot, Pages
<1>8. \A v \in S : ~kernel_tables[v].present
  BY <1>4, <1>5, <1>6, <1>7
<1>9. /\ held' = held \cup S \/ held' = held
      /\ lent' = lent /\ halted' \in BOOLEAN /\ breach' = breach
  <2>1. CASE o.fault
    BY <1>1, <1>3, <1>5, <2>1 DEF Halt, Allocate, BreachIf
  <2>2. CASE ~o.fault
    <3>1. Block(o, 1) = S
      <4>1. Len(<<>>) = 0
        OBVIOUS
      <4> QED
        BY <1>6, <1>7, <4>1 DEF Block, Succeeds
    <3> QED
      BY <1>1, <1>3, <1>5, <2>2, <3>1 DEF Give, Allocate, BreachIf
  <2> QED
    BY <2>1, <2>2
<1>10. /\ UNCHANGED <<current, other, window, forked, traded, misuse>>
       /\ inherited' = inherited
  BY DEF Within, MisuseIf, spaces
<1>11. S \cap inherited = {}
  BY <1>8 DEF SpacesInv, Lasting, InCommon
<1> HIDE DEF S
<1>12. S \in SUBSET Pages
  BY <1>4 DEF S
<1>13. inherited' = inherited \ S
  BY <1>10, <1>11
<1> QED
  BY <1>1, <1>6, <1>8, <1>9, <1>10, <1>12, <1>13, FillInv

LEMMA MapPageToInv ==
  ASSUME SpacesInv, NEW v \in Pages, map_page_to(v), Within({})
  PROVE  SpacesInv'
<1>1. /\ kernel_tables \in [Pages -> Entry] /\ halted \in BOOLEAN
      /\ misuse \subseteq Misuses /\ forked \in BOOLEAN /\ (forked => Cloned)
  BY DEF SpacesInv, Lasting, SpacesTypeOK, TypeOK
<1>2. PICK fs \in LowestFree(pmem_used, 1) :
        /\ kernel_tables' = MapAddrs(kernel_tables, v, fs)
        /\ pmem_used' = ClaimAll(pmem_used, fs)
        /\ Give(IF fs = <<>> THEN {} ELSE {v})
  BY DEF map_page_to
<1> DEFINE S == IF fs = <<>> THEN {} ELSE {v}
<1>3. Fills(kernel_tables, kernel_tables', pmem_used, pmem_used', S)
  BY <1>1, <1>2, OneFills
<1>4. /\ held' = held \cup S /\ ~kernel_tables[v].present
      /\ UNCHANGED <<halted, lent, breach>>
  BY <1>2 DEF Give, map_page_to
<1>5. /\ UNCHANGED <<current, other, window, forked, traded, misuse>>
      /\ inherited' = inherited
  BY DEF Within, MisuseIf, spaces
<1>6. \A w \in S : ~kernel_tables[w].present
  BY <1>4
<1>7. S \cap inherited = {}
  BY <1>6 DEF SpacesInv, Lasting, InCommon
<1> HIDE DEF S
<1>8. S \in SUBSET Pages
  BY DEF S
<1>9. inherited' = inherited \ S
  BY <1>5, <1>7
<1> QED
  BY <1>1, <1>3, <1>4, <1>5, <1>6, <1>8, <1>9, FillInv

LEMMA CloneUserPagesInv ==
  ASSUME SpacesInv, clone_user_pages
  PROVE  SpacesInv'
<1> DEFINE n == Cardinality(UserPages(kernel_tables))
<1>1. /\ kernel_tables \in [Pages -> Entry] /\ halted \in BOOLEAN
      /\ misuse \subseteq Misuses /\ forked \in BOOLEAN
  BY DEF SpacesInv, Lasting, SpacesTypeOK, TypeOK
<1>2. PICK fs \in LowestFree(pmem_used, n) :
        LET moved == Moved(kernel_tables, fs)
        IN  /\ kernel_tables' =
                 [v \in Pages |->
                    IF v \in moved
                    THEN [kernel_tables[v] EXCEPT !.address = fs[Order(kernel_tables, v)]]
                    ELSE kernel_tables[v]]
            /\ pmem_used' = ClaimCopies(pmem_used, fs)
            /\ inherited' = inherited \ moved
            /\ MisuseIf(moved \ inherited # {}, "again")
            /\ forked' = (forked \/ (Cloned /\ Len(fs) = n))
            /\ UNCHANGED <<halted, held, lent, breach, current, other, window, traded>>
  BY DEF clone_user_pages
<1> DEFINE S == Moved(kernel_tables, fs)
<1>3. /\ Fills(kernel_tables, kernel_tables', pmem_used, pmem_used', S)
      /\ Len(fs) = n => UserPages(kernel_tables) \subseteq S
  BY <1>1, <1>2, MovedFills DEF ClaimCopies, ClaimAll
<1>4. S \in SUBSET Pages /\ \A v \in S : kernel_tables[v].user
  BY DEF Moved, UserPages
<1>5. /\ inherited' = inherited \ S
      /\ MisuseIf(S \ inherited # {}, "again")
      /\ forked' = (forked \/ (Cloned /\ Len(fs) = n))
      /\ UNCHANGED <<halted, held, lent, breach, current, other, window, traded>>
  BY <1>2
<1> HIDE DEF S, n
<1>6. /\ misuse \subseteq misuse' /\ misuse' \subseteq misuse \cup {"again"}
      /\ misuse' = {} => \A v \in S : v \in inherited
  BY <1>1, <1>5 DEF MisuseIf
<1>7. /\ forked' = (forked \/ (Cloned /\ forked'))
      /\ forked' => forked \/ UserPages(kernel_tables) \subseteq S
  BY <1>1, <1>3, <1>5
<1> QED
  BY <1>1, <1>3, <1>4, <1>5, <1>6, <1>7, FillInv

LEMMA FreePageInv ==
  ASSUME SpacesInv, NEW v \in Pages, free_page(v, 1), Within({v})
  PROVE  SpacesInv'
<1>1. Run(v, 1) = {v}
  BY SizesAssumption DEF Run, Slot, Pages
<1>2. /\ v \in held
      /\ kernel_tables' = UnmapAll(kernel_tables, {v})
      /\ pmem_used' = ReleaseAll(pmem_used, kernel_tables, {v})
      /\ held' = held \ {v} /\ lent' = lent \ {v}
      /\ UNCHANGED <<halted, breach>>
  BY <1>1 DEF free_page
<1>3. halted \in BOOLEAN /\ breach \subseteq Breaches /\ lent \subseteq held
  BY DEF SpacesInv, Lasting, SpacesTypeOK, TypeOK
<1>4. UNCHANGED spaces /\ inherited' = inherited \ {v} /\ MisuseIf({v} \cap inherited # {}, "freed")
  BY DEF Within
<1>5. {v} \in SUBSET Pages
  OBVIOUS
<1>6. lent' \subseteq held' /\ {v} \cap held' = {} /\ \A w \in {v} : w \in held
  BY <1>2, <1>3
<1> QED
  BY <1>2, <1>3, <1>4, <1>5, <1>6, EmptyInv

LEMMA FreeAllInv ==
  ASSUME SpacesInv, free_all_user_pages, Within(UserPages(kernel_tables))
  PROVE  SpacesInv'
<1> DEFINE S == UserPages(kernel_tables)
<1>1. /\ kernel_tables' = UnmapAll(kernel_tables, S)
      /\ pmem_used' = ReleaseAll(pmem_used, kernel_tables, S)
      /\ held' = held \ lent /\ lent' = {} /\ halted' = halted
      /\ BreachIf(S \cap (held \ lent) # {}, "stale_user")
  BY DEF free_all_user_pages
<1>2. halted \in BOOLEAN /\ breach \subseteq Breaches /\ lent \subseteq held
  BY DEF SpacesInv, Lasting, SpacesTypeOK, TypeOK
<1>3. UNCHANGED spaces /\ inherited' = inherited \ S /\ MisuseIf(S \cap inherited # {}, "freed")
  BY DEF Within
<1>4. S \in SUBSET Pages /\ \A v \in S : kernel_tables[v].present /\ kernel_tables[v].user
  BY DEF UserPages
<1> HIDE DEF S
<1>5. breach \subseteq breach' /\ breach' \subseteq Breaches
  BY <1>1, <1>2 DEF BreachIf, Breaches
<1>6. NoneStale' => S \cap held' = {}
  BY <1>1 DEF NoneStale, BreachIf
<1>7. held' \subseteq held /\ lent' \subseteq held' /\ halted' \in BOOLEAN
  BY <1>1, <1>2
<1> QED
  BY <1>1, <1>3, <1>4, <1>5, <1>6, <1>7, EmptyInv

LEMMA TradeInv ==
  ASSUME SpacesInv, NEW v \in Pages, trade_vaddr(v)
  PROVE  SpacesInv'
<1>1. Lasting /\ FramesApart /\ AllAccounted /\ Untouched
  BY DEF SpacesInv
<1>2. SpacesTypeOK /\ TypeOK /\ kernel_tables \in [Pages -> Entry]
  BY <1>1 DEF Lasting, SpacesTypeOK, TypeOK
<1>3. /\ v \in held /\ kernel_tables[v].present /\ traded = {}
      /\ kernel_tables' = UnmapAll(kernel_tables, {v})
      /\ held' = held \ {v} /\ lent' = lent \ {v}
      /\ traded' = traded \cup {kernel_tables[v].address}
      /\ inherited' = inherited \ {v}
      /\ MisuseIf(v \in inherited, "traded")
      /\ UNCHANGED <<pmem_used, halted, breach, current, other, window, forked>>
  BY DEF trade_vaddr
<1>4. /\ ~kernel_tables'[v].present /\ kernel_tables'[v].address = 0
      /\ \A w \in Pages \ {v} : kernel_tables'[w] = kernel_tables[w]
  BY <1>3 DEF UnmapAll
<1>5. kernel_tables' \in [Pages -> Entry]
  BY <1>2, <1>3, NoFrameZero DEF UnmapAll, Entry
<1>6. /\ misuse \subseteq misuse' /\ misuse' \subseteq Misuses
      /\ v \in inherited => "traded" \in misuse'
      /\ v \notin inherited => misuse' = misuse
  BY <1>2, <1>3 DEF MisuseIf, Misuses, SpacesTypeOK
<1>7. traded' \subseteq Frames
  BY <1>2, <1>3 DEF Entry
<1>8. lent' \subseteq held'
  BY <1>2, <1>3 DEF TypeOK
<1>9. ASSUME v \notin inherited, NoneGivenUp
      PROVE  /\ Apart(kernel_tables', other.tables, traded', inherited', pmem_used)
             /\ Taken(kernel_tables', other.tables, traded')
                  = Taken(kernel_tables, other.tables, traded)
  <2>1. Apart(kernel_tables, other.tables, traded, inherited, pmem_used)
    BY <1>1, <1>9 DEF FramesApart
  <2>2. LET t2 == UnmapAll(kernel_tables, {v})
            d2 == traded \cup {kernel_tables[v].address}
        IN  /\ Apart(t2, other.tables, d2, inherited, pmem_used)
            /\ Taken(t2, other.tables, d2) = Taken(kernel_tables, other.tables, traded)
    BY <1>3, <1>9, <2>1, TradeApart
  <2>3. inherited' = inherited
    BY <1>3, <1>9
  <2> QED
    BY <1>3, <2>2, <2>3
<1>10. NoneGivenUp' => Apart(kernel_tables', other.tables, traded', inherited', pmem_used)
  BY <1>6, <1>9 DEF NoneGivenUp
<1>11. misuse' = {} => Taken(kernel_tables', other.tables, traded')
                        = Taken(kernel_tables, other.tables, traded)
  BY <1>6, <1>9 DEF NoneGivenUp
<1>12. NoneStale' => traded' \subseteq Pool
  BY <1>1, <1>3, <1>6 DEF Untouched, NoneStale, HoldsPool, InPool
<1> QED
  BY <1>3, <1>4, <1>5, <1>6, <1>7, <1>8, <1>10, <1>11, <1>12, EntryInv

LEMMA MapSecretlyInv ==
  ASSUME SpacesInv, NEW v \in Pages, NEW f \in traded, map_page_secretly(v, f)
  PROVE  SpacesInv'
<1>1. Lasting /\ FramesApart /\ AllAccounted /\ Untouched
  BY DEF SpacesInv
<1>2. SpacesTypeOK /\ TypeOK /\ kernel_tables \in [Pages -> Entry] /\ f \in Frames
  BY <1>1 DEF Lasting, SpacesTypeOK, TypeOK
<1>3. /\ ~kernel_tables[v].present
      /\ kernel_tables' = MapAddrs(kernel_tables, v, <<f>>)
      /\ held' = held \cup {v} /\ traded' = traded \ {f}
      /\ UNCHANGED <<pmem_used, halted, lent, breach, current, other, window, forked>>
      /\ UNCHANGED <<inherited, misuse>>
  BY DEF map_page_secretly, Give
<1>4. /\ kernel_tables' \in [Pages -> Entry]
      /\ kernel_tables'[v].present /\ kernel_tables'[v].address = f
      /\ \A w \in Pages \ {v} : kernel_tables'[w] = kernel_tables[w]
  BY <1>2, <1>3, OneEntry
<1>5. v \notin inherited
  BY <1>1, <1>3 DEF Lasting, InCommon
<1>6. /\ Apart(kernel_tables, other.tables, traded, inherited, pmem_used)
          => Apart(kernel_tables', other.tables, traded \ {f}, inherited, pmem_used)
      /\ Taken(kernel_tables', other.tables, traded \ {f})
           = Taken(kernel_tables, other.tables, traded)
  <2>1. ~kernel_tables[v].present
    BY <1>3
  <2> QED
    BY <1>4, <2>1, BringApart
<1>7. NoneGivenUp' => Apart(kernel_tables', other.tables, traded', inherited', pmem_used)
  BY <1>1, <1>3, <1>6 DEF FramesApart, NoneGivenUp
<1>8. traded' \subseteq Frames /\ lent' \subseteq held' /\ inherited' = inherited \ {v}
  BY <1>2, <1>3, <1>5 DEF SpacesTypeOK, TypeOK
<1>9. NoneStale' => /\ traded' \subseteq Pool
                    /\ ~InPool(kernel_tables, v) /\ InPool(kernel_tables', v)
  BY <1>1, <1>3, <1>4 DEF Untouched, NoneStale, InPool
<1>10. misuse' \subseteq Misuses
  BY <1>2, <1>3 DEF SpacesTypeOK
<1> QED
  BY <1>3, <1>4, <1>6, <1>7, <1>8, <1>9, <1>10, EntryInv

LEMMA MapPaddrInv ==
  ASSUME SpacesInv, NEW f \in Reserved \ {0}, map_paddr(f)
  PROVE  SpacesInv'
<1>1. Lasting /\ FramesApart /\ AllAccounted /\ Untouched
  BY DEF SpacesInv
<1>2. /\ SpacesTypeOK /\ TypeOK /\ kernel_tables \in [Pages -> Entry]
      /\ f \in Frames /\ f \notin Pool
  BY <1>1, ReservedAssumption DEF Lasting, SpacesTypeOK, TypeOK, Pool
<1>3. PICK v \in Fits(kernel_tables, 1) :
        /\ kernel_tables' = MapAddrs(kernel_tables, v, <<f>>)
        /\ MisuseIf(kernel_tables[v].user, "stale")
  BY DEF map_paddr
<1>4. v \in Pages /\ ~kernel_tables[v].present
  <2>1. v \in KernelPages /\ Gap(kernel_tables, v, 1)
    BY DEF Fits
  <2>2. v \in Int /\ v \in v .. NPages - 1 /\ v < v + 1 /\ v \in Pages
    BY <2>1, SizesAssumption DEF KernelPages, Pages
  <2> QED
    BY <2>1, <2>2 DEF Gap
<1>5. UNCHANGED <<pmem_used, halted, held, lent, breach, inherited>>
      /\ UNCHANGED <<current, other, window, forked, traded>>
  BY DEF map_paddr, spaces
<1>6. /\ kernel_tables' \in [Pages -> Entry]
      /\ kernel_tables'[v].present /\ kernel_tables'[v].address = f
      /\ kernel_tables'[v].user = kernel_tables[v].user
      /\ \A w \in Pages \ {v} : kernel_tables'[w] = kernel_tables[w]
  BY <1>2, <1>3, <1>4, OneEntry
<1>7. /\ misuse \subseteq misuse' /\ misuse' \subseteq Misuses
      /\ kernel_tables[v].user => "stale" \in misuse'
  BY <1>2, <1>3 DEF MisuseIf, Misuses, SpacesTypeOK
<1>8. SamePool(kernel_tables, kernel_tables')
  BY <1>2, <1>4, <1>6 DEF SamePool, InPool
<1>9. v \notin inherited
  BY <1>1, <1>4 DEF Lasting, InCommon
<1>10. NoneGivenUp' => Apart(kernel_tables', other.tables, traded', inherited', pmem_used)
  <2>1. NoneGivenUp' => NoneGivenUp
    BY <1>7 DEF NoneGivenUp
  <2> QED
    BY <1>1, <1>5, <1>8, <2>1, SamePoolApart DEF FramesApart
<1>11. Taken(kernel_tables', other.tables, traded') = Taken(kernel_tables, other.tables, traded)
  BY <1>5, <1>8, SamePoolApart
<1>12. NoneStale' => /\ traded \subseteq Pool /\ v \notin held /\ ~kernel_tables[v].user
                     /\ ~InPool(kernel_tables, v)
  BY <1>1, <1>4, <1>5, <1>7 DEF Untouched, NoneStale, HoldsPool, InPool
<1>13. traded' \subseteq Frames /\ lent' \subseteq held' /\ inherited' = inherited \ {v}
  BY <1>2, <1>5, <1>9 DEF SpacesTypeOK, TypeOK
<1> QED
  BY <1>4, <1>5, <1>6, <1>7, <1>10, <1>11, <1>12, <1>13, EntryInv

LEMMA UnmapSecretInv ==
  ASSUME SpacesInv, NEW v \in Pages, unmap_secret_page(v)
  PROVE  SpacesInv'
<1>1. Lasting /\ FramesApart /\ AllAccounted /\ Untouched
  BY DEF SpacesInv
<1>2. SpacesTypeOK /\ TypeOK /\ kernel_tables \in [Pages -> Entry]
  BY <1>1 DEF Lasting, SpacesTypeOK, TypeOK
<1>3. /\ kernel_tables' = UnmapAll(kernel_tables, {v})
      /\ inherited' = inherited \ {v} /\ misuse' = misuse
      /\ UNCHANGED <<pmem_used, halted, held, lent, breach>>
      /\ UNCHANGED <<current, other, window, forked, traded>>
  BY DEF unmap_secret_page, spaces
<1>4. ~InPool(kernel_tables, v)
  BY DEF unmap_secret_page, Secret, InPool, Pool
<1>5. /\ ~kernel_tables'[v].present /\ kernel_tables'[v].address = 0
      /\ \A w \in Pages \ {v} : kernel_tables'[w] = kernel_tables[w]
  BY <1>3 DEF UnmapAll
<1>6. kernel_tables' \in [Pages -> Entry]
  BY <1>2, <1>3, NoFrameZero DEF UnmapAll, Entry
<1>7. SamePool(kernel_tables, kernel_tables')
  BY <1>4, <1>5 DEF SamePool, InPool
<1>8. \A w \in inherited \ inherited' : ~InPool(kernel_tables, w)
  BY <1>3, <1>4
<1>9. NoneGivenUp' => Apart(kernel_tables', other.tables, traded', inherited', pmem_used)
  BY <1>1, <1>3, <1>7, <1>8, SamePoolApart DEF FramesApart, NoneGivenUp
<1>10. Taken(kernel_tables', other.tables, traded') = Taken(kernel_tables, other.tables, traded)
  BY <1>3, <1>7, <1>8, SamePoolApart
<1>11. NoneStale' => traded \subseteq Pool /\ v \notin held
  BY <1>1, <1>3, <1>4 DEF Untouched, NoneStale, HoldsPool
<1>12. /\ traded' \subseteq Frames /\ held' \subseteq held \cup {v} /\ lent' \subseteq held'
       /\ misuse' \subseteq Misuses
  BY <1>2, <1>3 DEF SpacesTypeOK, TypeOK
<1> QED
  BY <1>3, <1>4, <1>5, <1>6, <1>9, <1>10, <1>11, <1>12, EntryInv

LEMMA SwitchInv ==
  ASSUME SpacesInv, NEW space \in {"kernel", "clone"}, SwitchTo(space)
  PROVE  SpacesInv'
<1>1. Lasting /\ FramesApart /\ AllAccounted /\ SameBits /\ Untouched
  BY DEF SpacesInv
<1>2. /\ Cloned /\ current' = space
      /\ kernel_tables' = other.tables /\ held' = other.held /\ lent' = other.lent
      /\ other'.tables = kernel_tables /\ other'.held = held /\ other'.lent = lent
      /\ UNCHANGED <<pmem_used, halted, breach, window, forked, traded, inherited, misuse>>
  BY DEF SwitchTo, Space
<1>3. Lasting'
  <2>1. SpacesTypeOK /\ TypeOK
    BY <1>1 DEF Lasting, SpacesTypeOK
  <2>2. SpacesTypeOK'
    BY <1>2, <2>1 DEF SpacesTypeOK, TypeOK
  <2>3. InCommon(kernel_tables', other'.tables, inherited')
    BY <1>1, <1>2 DEF Lasting, InCommon
  <2> QED
    BY <1>1, <1>2, <2>2, <2>3 DEF Lasting, Cloned
<1>4. FramesApart'
  BY <1>1, <1>2, SwapApart DEF FramesApart, NoneGivenUp
<1>5. AllAccounted'
  BY <1>1, <1>2, SwapApart DEF AllAccounted
<1>6. SameBits'
  BY <1>1, <1>2 DEF SameBits
<1>7. Untouched'
  BY <1>1, <1>2 DEF Untouched, NoneStale, ReservedKept
<1> QED
  BY <1>3, <1>4, <1>5, <1>6, <1>7 DEF SpacesInv

\* The frames and the pages alloc_sequential finds, and what mapping them does.
RunFrames(run) == [i \in 1 .. TablePages |-> run[2] + i - 1]

LEMMA RunFills ==
  ASSUME NEW t \in [Pages -> Entry], NEW u, NEW run \in SequentialRuns(t, u, TablePages)
  PROVE  LET fs == RunFrames(run)
             S == Run(run[1], TablePages)
             copy == MapAddrs(t, run[1], fs)
         IN  /\ S \in SUBSET Pages /\ \A v \in S : ~t[v].present
             /\ Fills(t, copy, u, ClaimRun(u, fs), S)
             /\ \A i \in 1 .. TablePages :
                  /\ run[1] + i - 1 \in S /\ fs[i] \in Frames
                  /\ copy[run[1] + i - 1].address = fs[i]
<1> DEFINE fs == RunFrames(run)
           S == Run(run[1], TablePages)
           copy == MapAddrs(t, run[1], fs)
<1>1. /\ TablePages \in 1 .. NPages /\ NPages \in Nat /\ NFrames \in Nat
      /\ FirstFrame \in Nat /\ FirstSequential \in FirstFrame .. NFrames
  BY SizesAssumption, SpacesAssumption
<1>2. /\ run[1] \in Fits(t, TablePages)
      /\ run[2] \in FirstSequential .. NFrames - TablePages
      /\ \A i \in 0 .. TablePages - 1 : run[2] + i \notin u
  BY DEF SequentialRuns
<1>3. /\ run[1] \in Pages /\ run[1] + TablePages <= NPages
      /\ Gap(t, run[1], TablePages)
  BY <1>2, SizesAssumption DEF Fits, KernelPages, Pages
<1>4. S \in SUBSET Pages
  BY DEF Run
<1>5. \A v \in S : ~t[v].present
  <2> TAKE v \in S
  <2>1. v \in Pages /\ Slot(v, run[1]) \in 1 .. TablePages
    BY DEF Run
  <2>2. v \in run[1] .. NPages - 1 /\ v < run[1] + TablePages
    BY <1>1, <1>3, <2>1 DEF Slot, Pages
  <2> QED
    BY <1>3, <2>2 DEF Gap
<1>6. DOMAIN fs = 1 .. TablePages /\ \A i \in 1 .. TablePages : fs[i] = run[2] + i - 1
  BY DEF RunFrames
<1> HIDE DEF fs
<1>7. \A i \in DOMAIN fs : fs[i] \in FreeFrames(u)
  <2> TAKE i \in DOMAIN fs
  <2>1. i \in 1 .. TablePages /\ fs[i] = run[2] + i - 1
    BY <1>6
  <2>2. i - 1 \in 0 .. TablePages - 1 /\ run[2] + i - 1 = run[2] + (i - 1)
    BY <1>1, <1>2, <2>1
  <2>3. run[2] + (i - 1) \notin u
    BY <1>2, <2>2
  <2>4. run[2] + i - 1 \in FirstFrame .. NFrames - 1
    BY <1>1, <1>2, <2>1
  <2> QED
    BY <2>1, <2>2, <2>3, <2>4 DEF FreeFrames
<1>8. \A i, j \in DOMAIN fs : fs[i] = fs[j] => i = j
  BY <1>1, <1>2, <1>6
<1>9. Fills(t, copy, u, ClaimRun(u, fs), S)
  <2>1. TablePages \in 0 .. NPages
    BY <1>1
  <2>2. Fills(t, copy, u, ClaimAll(u, fs), S)
    BY <1>3, <1>6, <1>7, <1>8, <2>1, MapFills
  <2>3. ClaimRun(u, fs) = ClaimAll(u, fs)
    BY DEF ClaimRun, ClaimAll
  <2> QED
    BY <2>2, <2>3
<1>10. ASSUME NEW i \in 1 .. TablePages
       PROVE  /\ run[1] + i - 1 \in S /\ fs[i] \in Frames
              /\ copy[run[1] + i - 1].address = fs[i]
  <2> DEFINE v == run[1] + i - 1
  <2>1. v \in Pages /\ Slot(v, run[1]) = i
    BY <1>1, <1>3 DEF Slot, Pages
  <2>2. v \in S
    BY <2>1 DEF Run
  <2>3. copy[v].address = fs[i]
    BY <1>6, <2>1 DEF MapAddrs
  <2> QED
    BY <1>6, <1>7, <2>2, <2>3, FreeFramesAre
<1> QED
  BY <1>4, <1>5, <1>9, <1>10 DEF fs

LEMMA CloneTablesInv ==
  ASSUME SpacesInv, clone_tables
  PROVE  SpacesInv'
<1>1. Lasting /\ FramesApart /\ AllAccounted /\ SameBits /\ Untouched
  BY DEF SpacesInv
<1>2. SpacesTypeOK /\ TypeOK /\ kernel_tables \in [Pages -> Entry]
  BY <1>1 DEF Lasting, SpacesTypeOK, TypeOK
<1>3. /\ ~Cloned /\ forked = FALSE /\ inherited = {}
      /\ other.tables = Absent /\ window = <<>>
  BY <1>1, <1>2 DEF clone_tables, Lasting, SpacesTypeOK, Cloned, Space
<1>4. CASE CloneNowhere
  <2>1. /\ halted' = TRUE
        /\ UNCHANGED <<pmem_used, kernel_tables, held, lent, breach, inherited, misuse>>
        /\ UNCHANGED <<current, other, window, forked, traded>>
    BY <1>4 DEF CloneNowhere, spaces
  <2>2. Lasting'
    <3>1. TypeOK'
      BY <1>2, <2>1 DEF TypeOK
    <3>2. SpacesTypeOK'
      BY <1>2, <2>1, <3>1 DEF SpacesTypeOK
    <3> QED
      BY <1>1, <2>1, <3>2 DEF Lasting, Cloned
  <2>3. FramesApart' /\ AllAccounted' /\ SameBits'
    BY <1>1, <2>1 DEF FramesApart, AllAccounted, SameBits, NoneGivenUp
  <2>4. Untouched'
    BY <1>1, <2>1 DEF Untouched, NoneStale, ReservedKept
  <2> QED
    BY <2>2, <2>3, <2>4 DEF SpacesInv
<1>5. CASE \E run \in SequentialRuns(kernel_tables, pmem_used, TablePages) : CloneInto(run)
  <2>1. PICK run \in SequentialRuns(kernel_tables, pmem_used, TablePages) : CloneInto(run)
    BY <1>5
  <2> DEFINE fs == RunFrames(run)
             copy == MapAddrs(kernel_tables, run[1], fs)
             S == Run(run[1], TablePages)
             u == ClaimRun(pmem_used, fs)
  <2>2. /\ kernel_tables' = copy /\ pmem_used' = u
        /\ current' = "clone"
        /\ other'.tables = copy /\ other'.held = held /\ other'.lent = lent
        /\ window' = [i \in 1 .. TablePages |-> <<run[1] + i - 1, fs[i]>>]
        /\ inherited' = Mapped(copy)
        /\ MisuseIf(\E v \in S : copy[v].user, "stale")
        /\ UNCHANGED <<halted, held, lent, breach, forked, traded>>
    BY <2>1 DEF CloneInto, Space, RunFrames
  <2>3. /\ S \in SUBSET Pages /\ \A v \in S : ~kernel_tables[v].present
        /\ Fills(kernel_tables, copy, pmem_used, u, S)
        /\ \A i \in 1 .. TablePages :
             /\ run[1] + i - 1 \in S /\ fs[i] \in Frames
             /\ copy[run[1] + i - 1].address = fs[i]
    BY <1>2, <2>1, RunFills
  <2>4. DOMAIN window' = 1 .. TablePages /\ window' # <<>>
        /\ \A i \in 1 .. TablePages :
             window'[i][1] = run[1] + i - 1 /\ window'[i][2] = fs[i]
    <3>1. 1 \in 1 .. TablePages
      BY SpacesAssumption
    <3>2. DOMAIN window' = 1 .. TablePages
      BY <2>2
    <3>3. window' # <<>>
      <4>1. DOMAIN <<>> = {}
        OBVIOUS
      <4> QED
        BY <3>1, <3>2, <4>1
    <3> QED
      BY <2>2, <3>2, <3>3
  <2>5. window' \in [1 .. TablePages -> Pages \X Frames]
    BY <2>2, <2>3
  <2> HIDE DEF fs, copy, S, u
  <2>6. /\ copy \in [Pages -> Entry]
        /\ \A v \in S : copy[v].present /\ copy[v].address \in FreeFrames(pmem_used)
        /\ \A v \in Pages \ S : copy[v] = kernel_tables[v]
        /\ u = pmem_used \cup {copy[v].address : v \in S}
    BY <2>3 DEF Fills
  <2>7. /\ misuse \subseteq misuse' /\ misuse' \subseteq Misuses
        /\ (\E v \in S : copy[v].user) => "stale" \in misuse'
    BY <1>2, <2>2 DEF MisuseIf, Misuses, SpacesTypeOK
  <2>8. Lasting'
    <3>1. u \subseteq Frames
      BY <1>2, <2>6, FreeFramesAre DEF TypeOK
    <3>2. TypeOK'
      BY <1>2, <2>2, <2>6, <3>1 DEF TypeOK
    <3>3. Mapped(copy) \subseteq Pages
      BY DEF Mapped
    <3>4. SpacesTypeOK'
      BY <1>2, <2>2, <2>5, <2>6, <2>7, <3>2, <3>3 DEF SpacesTypeOK, TypeOK
    <3>5. Zeroed(copy)
      BY <1>1, <2>6 DEF Lasting, Zeroed
    <3>6. InCommon(copy, copy, Mapped(copy))
      BY DEF InCommon, Mapped
    <3> QED
      BY <1>3, <2>2, <2>4, <3>4, <3>5, <3>6 DEF Lasting, Cloned
  <2>9. FramesApart'
    <3> SUFFICES ASSUME NoneGivenUp' PROVE Apart(copy, copy, traded, Mapped(copy), u)
      BY <2>2 DEF FramesApart
    <3>1. NoneGivenUp
      BY <2>7 DEF NoneGivenUp
    <3>2. Apart(kernel_tables, Absent, traded, {}, pmem_used)
      BY <1>1, <1>3, <3>1 DEF FramesApart
    <3>3. Apart(copy, Absent, traded, {} \ S, u)
      BY <2>3, <3>2, FillApart
    <3> QED
      BY <3>3, CopyApart
  <2>10. AllAccounted'
    <3> SUFFICES ASSUME misuse' = {} PROVE u \cap Pool = Taken(copy, copy, traded)
      BY <2>2 DEF AllAccounted
    <3>1. pmem_used \cap Pool = Taken(kernel_tables, Absent, traded)
      BY <1>1, <1>3, <2>7 DEF AllAccounted
    <3>2. InCommon(kernel_tables, Absent, {}) /\ \A v \in S : InPool(kernel_tables, v) => v \in {}
      BY <2>3 DEF InCommon, InPool
    <3>3. u \cap Pool = Taken(copy, Absent, traded)
      BY <2>3, <3>1, <3>2, FillTaken
    <3> QED
      BY <3>3, CopyTaken
  <2>11. SameBits'
    BY <1>3, <2>2 DEF SameBits
  <2>12. Untouched'
    <3> SUFFICES ASSUME NoneStale' PROVE Untouched'
      BY DEF Untouched
    <3>1. NoneStale /\ \A v \in S : ~copy[v].user
      BY <2>2, <2>7 DEF NoneStale
    <3>2. ReservedKept /\ HoldsPool(kernel_tables, held) /\ traded \subseteq Pool
      BY <1>1, <3>1 DEF Untouched
    <3>3. \A v \in S : InPool(copy, v)
      BY <2>6, <3>2, FreeInPool DEF ReservedKept, InPool
    <3>4. \A v \in S : v \notin held
      BY <2>3, <3>2 DEF HoldsPool, InPool
    <3>5. HoldsPool(copy, held)
      BY <1>2, <2>6, <3>2, <3>3 DEF HoldsPool, InPool, TypeOK
    <3>6. OwnPages(copy, held, window')
      BY <2>3, <2>4, <3>1, <3>3, <3>4 DEF OwnPages
    <3>7. ReservedKept'
      BY <2>2, <2>6, <3>2 DEF ReservedKept
    <3> QED
      BY <2>2, <3>2, <3>5, <3>6, <3>7 DEF Untouched
  <2> QED
    BY <2>8, <2>9, <2>10, <2>11, <2>12 DEF SpacesInv
<1> QED
  BY <1>4, <1>5 DEF clone_tables

LEMMA SpacesNextInv == SpacesInv /\ [SpacesNext]_allVars => SpacesInv'
<1> SUFFICES ASSUME SpacesInv, [SpacesNext]_allVars PROVE SpacesInv'
  OBVIOUS
<1>1. CASE alloc_page(1) /\ Within({})
  BY <1>1, AllocPageInv
<1>2. CASE \E v \in Pages : map_page_to(v) /\ Within({})
  BY <1>2, MapPageToInv
<1>3. CASE \E v \in Pages : free_page(v, 1) /\ Within({v})
  BY <1>3, FreePageInv
<1>4. CASE free_all_user_pages /\ Within(UserPages(kernel_tables))
  BY <1>4, FreeAllInv
<1>5. CASE \E v \in Pages, user \in BOOLEAN : Lend(v, user)
  BY <1>5, LendInv
<1>6. CASE clone_tables
  BY <1>6, CloneTablesInv
<1>7. CASE clone_user_pages
  BY <1>7, CloneUserPagesInv
<1>8. CASE use_kernel_map \/ switch_tables
  BY <1>8, SwitchInv DEF use_kernel_map, switch_tables
<1>9. CASE \E v \in Pages : trade_vaddr(v) \/ unmap_secret_page(v)
  BY <1>9, TradeInv, UnmapSecretInv
<1>10. CASE \E v \in Pages, f \in traded : map_page_secretly(v, f)
  BY <1>10, MapSecretlyInv
<1>11. CASE \E f \in Reserved \ {0} : map_paddr(f)
  BY <1>11, MapPaddrInv
<1>12. CASE UNCHANGED allVars
  <2>1. UNCHANGED <<pmem_used, kernel_tables, halted, held, lent, breach, inherited, misuse>>
        /\ UNCHANGED <<current, other, window, forked, traded>>
    BY <1>12 DEF allVars, vars, spaces
  <2>2. SpacesTypeOK'
    BY <2>1 DEF SpacesInv, Lasting, SpacesTypeOK, TypeOK
  <2>3. Lasting'
    BY <2>1, <2>2 DEF SpacesInv, Lasting, Cloned
  <2>4. FramesApart' /\ AllAccounted' /\ SameBits'
    BY <2>1 DEF SpacesInv, FramesApart, AllAccounted, SameBits, NoneGivenUp
  <2>5. Untouched'
    BY <2>1 DEF SpacesInv, Untouched, NoneStale, ReservedKept
  <2> QED
    BY <2>3, <2>4, <2>5 DEF SpacesInv
<1> QED
  BY <1>1, <1>2, <1>3, <1>4, <1>5, <1>6, <1>7, <1>8, <1>9, <1>10, <1>11, <1>12
     DEF SpacesNext, SpacesCall

----------------------------------------------------------------------------
\* Whatever calls are made in whichever space, and however often callers misuse
\* them, the invariant holds.
THEOREM SpacesInvariance == SpacesSpec => []SpacesInv
BY SpacesInitInv, SpacesNextInv, PTL DEF SpacesSpec

\* clone_tables, clone_user_pages, trade_vaddr, map_page_secretly and map_addr of
\* other pages: no frame is in both spaces but behind a page they have in common,
\* and no traded one in either.
THEOREM OnlyInheritedShared == SpacesSpec => []SharedOnlyInherited
<1>1. SpacesInv => SharedOnlyInherited
  <2> SUFFICES ASSUME SpacesInv, NoneGivenUp
               PROVE  /\ \A v, w \in Pages : SameFrame(v, w) => v = w /\ v \in inherited
                      /\ traded \cap (PoolMapped(kernel_tables) \cup PoolMapped(other.tables)) = {}
    BY DEF SharedOnlyInherited
  <2>1. Apart(kernel_tables, other.tables, traded, inherited, pmem_used)
    BY DEF SpacesInv, FramesApart
  <2> QED
    BY <2>1 DEF Apart, Sharing, SameFrame, Here, There, InPool
<1> QED
  BY <1>1, SpacesInvariance, PTL

\* After clone_user_pages has moved every user page no frame of one is seen in both
\* spaces.
THEOREM ForksAreApart == SpacesSpec => []ForkIsolates
<1>1. SpacesInv => ForkIsolates
  <2> SUFFICES ASSUME SpacesInv, forked, NoneGivenUp, "lent" \notin misuse,
                      NEW v \in Pages, NEW w \in Pages, SameFrame(v, w)
               PROVE  ~Here(v).user /\ ~There(w).user
    BY DEF ForkIsolates
  <2>1. Sharing(kernel_tables, other.tables, inherited)
    BY DEF SpacesInv, FramesApart, Apart
  <2>2. v = w /\ v \in inherited
    BY <2>1 DEF Sharing, SameFrame, Here, There, InPool
  <2> QED
    BY <2>2 DEF SpacesInv, SameBits, Here, There
<1> QED
  BY <1>1, SpacesInvariance, PTL

\* The bitmap of map_addr, unmap_vaddr and clone_user_pages claims what the two
\* spaces map and what is on its way between them, and a device's frame for ever.
THEOREM SpacesAccountedFor == SpacesSpec => []SpacesAccounted
<1>1. SpacesInv => SpacesAccounted
  <2> SUFFICES ASSUME SpacesInv PROVE SpacesAccounted
    OBVIOUS
  <2>1. SpacesTypeOK
    BY DEF SpacesInv, Lasting
  <2>2. InUse = Taken(kernel_tables, other.tables, traded)
    BY DEF InUse, Taken
  <2>3. NoneGivenUp => InUse \subseteq pmem_used
    BY <2>2 DEF SpacesInv, FramesApart, Apart
  <2>4. misuse = {} => pmem_used \cap Pool = InUse
    BY <2>2 DEF SpacesInv, AllAccounted
  <2>5. NoneStale => ReservedKept
    BY DEF SpacesInv, Untouched
  <2> QED
    BY <2>1, <2>3, <2>4, <2>5 DEF SpacesAccounted
<1> QED
  BY <1>1, SpacesInvariance, PTL

\* The pages clone_tables mapped the copy at stay mapped to it in both spaces, so
\* that the tables in force can always be edited.
THEOREM CopyStaysMapped == SpacesSpec => []CopyReachable
<1>1. SpacesInv => CopyReachable
  <2> SUFFICES ASSUME SpacesInv, NoneStale, NEW i \in DOMAIN window
               PROVE  /\ Here(window[i][1]).present /\ There(window[i][1]).present
                      /\ Here(window[i][1]).address = window[i][2]
                      /\ There(window[i][1]).address = window[i][2]
    BY DEF CopyReachable
  <2>1. /\ OwnPages(kernel_tables, held, window)
        /\ OwnPages(other.tables, other.held, window)
    BY DEF SpacesInv, Untouched
  <2> QED
    BY <2>1 DEF OwnPages, InPool, Here, There
<1> QED
  BY <1>1, SpacesInvariance, PTL
=============================================================================

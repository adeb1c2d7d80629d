---------------------------- MODULE PageManager ----------------------------
(***************************************************************************)
(* The page manager of src/memory/memory.c once paging_init has returned:  *)
(* the bitmap of physical frames, the page tables mapped at 0xC0400000,    *)
(* and the operations the rest of the kernel calls on them.                *)
(*                                                                         *)
(* A page is a 4 KiB unit of virtual memory (an index into kernel_tables), *)
(* a frame a 4 KiB unit of physical memory (a bit of pmem_used).  Page and *)
(* frame contents, the TLB and the readwrite bit are left out.  The kernel *)
(* calls these operations from its one thread and from no interrupt        *)
(* handler, so each call is one step.                                      *)
(***************************************************************************)
EXTENDS Integers, Sequences

CONSTANTS
  NFrames,     \* frames of physical memory: 0x100000 in the code
  FirstFrame,  \* where find_free_phys_page starts: 0x800
  NPages,      \* entries of kernel_tables: 0x100000
  KernelBase,  \* the first page of kernel space: 0xC0000
  Reserved,    \* frames paging_init leaves claimed in pmem_used
  BootMap,     \* pages paging_init maps, each with its frame
  MaxPages     \* bound: the largest block a caller asks for

Frames == 0 .. NFrames - 1
Pages == 0 .. NPages - 1
KernelPages == KernelBase .. NPages - 1

\* What the allocator may hand out: the frames the memory map called available.
Pool == Frames \ Reserved

ASSUME SizesAssumption ==
  /\ NFrames \in Nat /\ NPages \in Nat
  /\ FirstFrame \in 1 .. NFrames
  /\ KernelBase \in 1 .. NPages - 1
  /\ MaxPages \in 1 .. NPages

\* The last memset of paging_init claims every frame below FirstFrame.
ASSUME ReservedAssumption ==
  /\ Reserved \subseteq Frames
  /\ 0 .. FirstFrame - 1 \subseteq Reserved

ASSUME BootMapAssumption ==
  /\ DOMAIN BootMap \subseteq Pages \ {0}
  /\ \A v \in DOMAIN BootMap : BootMap[v] \in Reserved

VARIABLES
  pmem_used,      \* the frames whose bit is set
  kernel_tables,  \* page |-> the entry's present, address and user fields
  halted,         \* a page fault reached isr_handler, which never returns
  \* Ghosts: what the callers believe, and what went wrong so far.
  held,           \* pages a caller was given and has not given back
  lent,           \* the held pages whose holder called mark_user(page, true)
  breach          \* which of the Breaches have happened

vars == <<pmem_used, kernel_tables, halted, held, lent, breach>>

Entry == [present : BOOLEAN, address : Frames, user : BOOLEAN]

(***************************************************************************)
(* The three ways a caller's page can stop being his without his knowing:  *)
(*  "short_grow"  realloc_page grew in place and ran out of frames;        *)
(*  "stale_user"  free_all_user_pages freed a page that only inherited the *)
(*                user bit of the page's former holder;                    *)
(*  "past_end"    alloc_page took what lies after the page tables for free *)
(*                entries and mapped over the first pages.                 *)
(***************************************************************************)
Breaches == {"short_grow", "stale_user", "past_end"}

----------------------------------------------------------------------------
\* Helpers.  t is a value of kernel_tables, u one of pmem_used.

\* The n pages from page start on; page numbers wrap as 32-bit addresses do.
Slot(v, start) == IF v >= start THEN v - start + 1 ELSE v - start + 1 + NPages
Run(start, n) == {v \in Pages : Slot(v, start) \in 1 .. n}

FreeFrames(u) == {f \in FirstFrame .. NFrames - 1 : f \notin u}

\* What up to n calls of find_free_phys_page, each followed by the claim of
\* its result, return: the lowest free frames, fewer than n once none is left.
LowestFree(u, n) ==
  {fs \in UNION {[1 .. m -> FreeFrames(u)] : m \in 0 .. n} :
     /\ \A i, j \in DOMAIN fs : i < j => fs[i] < fs[j]
     /\ \A f \in FreeFrames(u) :
          \/ \E i \in DOMAIN fs : fs[i] = f
          \/ Len(fs) = n /\ \A i \in DOMAIN fs : fs[i] < f}

\* map_addr on consecutive pages, the i-th onto frame fs[i].
MapAddrs(t, start, fs) ==
  [v \in Pages |->
     IF Slot(v, start) \in DOMAIN fs
     THEN [present |-> TRUE, address |-> fs[Slot(v, start)], user |-> t[v].user]
     ELSE t[v]]

\* Slip: map_addr does not claim.
ClaimAll_Nothing(u, fs) == u

ClaimAll(u, fs) == u \cup {fs[i] : i \in DOMAIN fs}

\* unmap_vaddr on every page of S, present or not.
UnmapAll(t, S) ==
  [v \in Pages |->
     IF v \in S THEN [present |-> FALSE, address |-> 0, user |-> t[v].user]
     ELSE t[v]]

\* Slip: unmap_vaddr does not release.
ReleaseAll_Nothing(u, t, S) == u

ReleaseAll(u, t, S) == u \ {t[v].address : v \in S}

\* A run of n absent pages from i on, as far as the tables go.
Gap(t, i, n) == \A j \in i .. NPages - 1 : j < i + n => ~t[j].present
Fits(t, n) == {i \in KernelPages : i + n <= NPages /\ Gap(t, i, n)}
Tails(t, n) == {i \in KernelPages : i + n > NPages /\ Gap(t, i, n)}

(***************************************************************************)
(* What alloc_page(n) may do: start is the first page it maps and frames   *)
(* what it maps there.  It returns NULL iff it maps fewer than n pages.    *)
(* With no run that fits, the search goes on in the last pages and reads   *)
(* entries past the end of the tables: that faults, or reads as present,   *)
(* or reads as absent, and then the block wraps round to page 0.           *)
(***************************************************************************)
AllocOutcomes(t, u, n) ==
  LET starts == IF Fits(t, n) # {}
                THEN {i \in Fits(t, n) : \A j \in Fits(t, n) : i <= j}
                ELSE Tails(t, n)
  IN  [start : starts, frames : LowestFree(u, n), fault : {FALSE}]
      \cup [start : {i \in {0} : Fits(t, n) = {}}, frames : {<<>>},
            fault : {b \in BOOLEAN : b => Tails(t, n) # {}}]

\* Slip: alloc_page returns the block though frames ran out on the way.
Succeeds_Partly(o, n) == o.frames # <<>>

Succeeds(o, n) == Len(o.frames) = n
Wraps(o) == o.start + Len(o.frames) > NPages

\* A memset or memcpy through NULL over n pages.
NullFaults(t, n) == \E v \in Run(0, n) : ~t[v].present

BreachIf(cond, kind) == breach' = IF cond THEN breach \cup {kind} ELSE breach

----------------------------------------------------------------------------
Init ==
  /\ pmem_used = Reserved
  /\ kernel_tables =
       [v \in Pages |->
          IF v \in DOMAIN BootMap
          THEN [present |-> TRUE, address |-> BootMap[v], user |-> FALSE]
          ELSE [present |-> FALSE, address |-> 0, user |-> FALSE]]
  /\ halted = FALSE
  /\ held = {} /\ lent = {} /\ breach = {}

Give(pages) == held' = held \cup pages

Halt == halted' = TRUE /\ UNCHANGED <<held, lent>>

\* What alloc_page does to tables and bitmap, and whether the block wrapped.
Allocate(o) ==
  /\ kernel_tables' = MapAddrs(kernel_tables, o.start, o.frames)
  /\ pmem_used' = ClaimAll(pmem_used, o.frames)
  /\ BreachIf(Wraps(o), "past_end")

\* The pages of the block the caller gets, none if it gets NULL.
Block(o, n) == IF Succeeds(o, n) THEN Run(o.start, n) ELSE {}

alloc_page(n) ==
  \E o \in AllocOutcomes(kernel_tables, pmem_used, n) :
    /\ Allocate(o)
    /\ IF o.fault THEN Halt ELSE Give(Block(o, n)) /\ UNCHANGED <<halted, lent>>

\* memset on the result of alloc_page, NULL included.
calloc_page(n) ==
  \E o \in AllocOutcomes(kernel_tables, pmem_used, n) :
    /\ Allocate(o)
    /\ IF o.fault \/ (~Succeeds(o, n) /\ NullFaults(kernel_tables', n))
       THEN Halt
       ELSE Give(Block(o, n)) /\ UNCHANGED <<halted, lent>>

\* A caller frees pages it holds.
free_page(start, n) ==
  /\ start + n <= NPages /\ Run(start, n) \subseteq held
  /\ kernel_tables' = UnmapAll(kernel_tables, Run(start, n))
  /\ pmem_used' = ReleaseAll(pmem_used, kernel_tables, Run(start, n))
  /\ held' = held \ Run(start, n)
  /\ lent' = lent \ Run(start, n)
  /\ UNCHANGED <<halted, breach>>

\* Nobody passes NULL; a page that is present is refused.
map_page_to(v) ==
  /\ v # 0 /\ ~kernel_tables[v].present
  /\ \E fs \in LowestFree(pmem_used, 1) :
       /\ kernel_tables' = MapAddrs(kernel_tables, v, fs)
       /\ pmem_used' = ClaimAll(pmem_used, fs)
       /\ Give(IF fs = <<>> THEN {} ELSE {v})
  /\ UNCHANGED <<halted, lent, breach>>

mark_user(v, user) ==
  /\ v \in held
  /\ kernel_tables' = [kernel_tables EXCEPT ![v].user = user]
  /\ lent' = IF user THEN lent \cup {v} ELSE lent \ {v}
  /\ UNCHANGED <<pmem_used, halted, held, breach>>

\* realloc_page(ptr, old_pages, new_pages) on pages the caller holds; the
\* grown block still ends inside the tables (a bound on the inputs).
ReallocArgs(start, old, new) ==
  /\ old # new
  /\ start + old <= NPages /\ start + new <= NPages
  /\ Run(start, old) \subseteq held

Growth(start, old, new) == Run(start + old, new - old)

ReallocShrink(start, old, new) ==
  /\ new < old
  /\ free_page(start + new, old - new)

\* The result of each map_page_to is ignored.
ReallocInPlace(start, old, new) ==
  /\ old < new
  /\ \A v \in Growth(start, old, new) : ~kernel_tables[v].present
  /\ \E fs \in LowestFree(pmem_used, new - old) :
       /\ kernel_tables' = MapAddrs(kernel_tables, start + old, fs)
       /\ pmem_used' = ClaimAll(pmem_used, fs)
       /\ Give(Growth(start, old, new))
       /\ BreachIf(Len(fs) < new - old, "short_grow")
  /\ UNCHANGED <<halted, lent>>

\* Slips: the old block is forgotten, or freed before the new one is there.
ReallocMove_KeepsOld(start, old, new) ==
  /\ old < new /\ \E v \in Growth(start, old, new) : kernel_tables[v].present
  /\ \E o \in AllocOutcomes(kernel_tables, pmem_used, new) :
       /\ Allocate(o)
       /\ held' = (held \ Run(start, old)) \cup Block(o, new)
  /\ lent' = lent \ Run(start, old)
  /\ UNCHANGED halted

ReallocMove_FreesFirst(start, old, new) ==
  LET t == UnmapAll(kernel_tables, Run(start, old))
      u == ReleaseAll(pmem_used, kernel_tables, Run(start, old))
  IN  /\ old < new /\ \E v \in Growth(start, old, new) : kernel_tables[v].present
      /\ \E o \in AllocOutcomes(t, u, new) :
           /\ kernel_tables' = MapAddrs(t, o.start, o.frames)
           /\ pmem_used' = ClaimAll(u, o.frames)
           /\ held' = (held \ Run(start, old)) \cup Block(o, new)
      /\ lent' = lent \ Run(start, old)
      /\ UNCHANGED <<halted, breach>>

\* alloc_page, memcpy to its result whatever it is, free_page of the old block.
ReallocMove(start, old, new) ==
  /\ old < new
  /\ \E v \in Growth(start, old, new) : kernel_tables[v].present
  /\ \E o \in AllocOutcomes(kernel_tables, pmem_used, new) :
       LET t == MapAddrs(kernel_tables, o.start, o.frames)
           u == ClaimAll(pmem_used, o.frames)
           source == Run(start, old)
       IN  IF \/ o.fault
              \/ ~Succeeds(o, new) /\ NullFaults(t, old)
              \/ \E v \in source : ~t[v].present
           THEN Allocate(o) /\ Halt
           ELSE /\ kernel_tables' = UnmapAll(t, source)
                /\ pmem_used' = ReleaseAll(u, t, source)
                /\ held' = (held \ source) \cup Block(o, new)
                /\ lent' = lent \ source
                /\ BreachIf(Wraps(o), "past_end")
                /\ UNCHANGED halted

realloc_page(start, old, new) ==
  /\ ReallocArgs(start, old, new)
  /\ \/ ReallocShrink(start, old, new)
     \/ ReallocInPlace(start, old, new)
     \/ ReallocMove(start, old, new)

\* Slip: free_all_user_pages does not look at the user bit.
UserPages_All(t) == {v \in Pages : t[v].present}

UserPages(t) == {v \in Pages : t[v].user /\ t[v].present}

free_all_user_pages ==
  /\ kernel_tables' = UnmapAll(kernel_tables, UserPages(kernel_tables))
  /\ pmem_used' = ReleaseAll(pmem_used, kernel_tables, UserPages(kernel_tables))
  /\ held' = held \ lent
  /\ lent' = {}
  /\ BreachIf(UserPages(kernel_tables) \cap (held \ lent) # {}, "stale_user")
  /\ UNCHANGED halted

\* isr_handler spins after printing the exception.
Spin == halted /\ UNCHANGED vars

Call ==
  \/ \E n \in 1 .. MaxPages : alloc_page(n) \/ calloc_page(n)
  \/ \E start \in Pages, n \in 1 .. MaxPages : free_page(start, n)
  \/ \E v \in Pages : map_page_to(v)
  \/ \E v \in Pages, user \in BOOLEAN : mark_user(v, user)
  \/ \E start \in Pages, old, new \in 1 .. MaxPages : realloc_page(start, old, new)
  \/ free_all_user_pages

Next == (~halted /\ Call) \/ Spin

Spec == Init /\ [][Next]_vars

----------------------------------------------------------------------------
TypeOK ==
  /\ pmem_used \subseteq Frames
  /\ kernel_tables \in [Pages -> Entry]
  /\ halted \in BOOLEAN
  /\ held \subseteq Pages
  /\ lent \subseteq held
  /\ breach \subseteq Breaches

Mapped(t) == {v \in Pages : t[v].present}
PoolMapped(t) == {t[v].address : v \in Mapped(t)} \cap Pool

\* No two pages share a frame of the pool.
Exclusive(t) ==
  \A v, w \in Mapped(t) : t[v].address = t[w].address /\ t[v].address \in Pool => v = w

\* Whatever the calls and their failures, no frame of the pool is ever behind
\* two pages, and no mapped one is free to be handed out again: alloc_page and
\* map_page_to always take a frame nobody has, free_page gives up only its own.
FramesExclusive ==
  /\ Exclusive(kernel_tables)
  /\ PoolMapped(kernel_tables) \subseteq pmem_used

\* A page that alloc_page, calloc_page, map_page_to or realloc_page handed out
\* stays mapped to a frame of the pool until its holder gives it back, unless
\* one of the Breaches has happened; there is no fourth way to lose a page.
HeldMapped ==
  breach = {} => \A v \in held : /\ kernel_tables[v].present
                                 /\ kernel_tables[v].address \in Pool

\* The bitmap says exactly which frames of the pool are mapped, so that no
\* frame leaks, even after partial failures; only mapping over the first
\* pages loses one.
Accounted ==
  "past_end" \notin breach => pmem_used \cap Pool = PoolMapped(kernel_tables)

\* No free ever makes a frame available that paging_init reserved for the
\* kernel, the tables or a device, so none is ever handed out.  Frame 0 is the
\* exception: freeing a page that is not mapped releases it, and only the
\* start of find_free_phys_page at FirstFrame keeps it from being handed out.
ReservedKept == Reserved \ {0} \subseteq pmem_used

\* The bitmap tells the truth through all failures: of the pool it claims what is
\* mapped, and of the rest everything.
BitmapExact == TypeOK /\ Accounted /\ ReservedKept

\* Pages mapped for nobody: what alloc_page leaves behind when it gives up
\* half way.
Stranded == {v \in Pages : /\ kernel_tables[v].present
                           /\ kernel_tables[v].address \in Pool
                           /\ v \notin held}

\* alloc_page, calloc_page and realloc_page leave a mapped page without a
\* holder only when they have used up the last free frame, or halted the
\* machine; no other call does.  Once a block has wrapped round to page 0 a
\* copy to NULL succeeds, and then a failed realloc_page may do it too.
StrandsOnlyWhenFull ==
  [][\/ Stranded' \subseteq Stranded
     \/ FreeFrames(pmem_used') = {}
     \/ halted'
     \/ "past_end" \in breach']_vars

----------------------------------------------------------------------------
(* PageManager implements PagePool: the owner of a frame is the page whose *)
(* present entry holds its address.                                        *)

\* The owner of frame f in tables t and bitmap u.
MappedTo(t, f) == {v \in Pages : t[v].present /\ t[v].address = f}
OwnerOf(t, u, f) ==
  IF f \notin u THEN -1
  ELSE IF MappedTo(t, f) # {} THEN CHOOSE v \in MappedTo(t, f) : TRUE ELSE -2

OwnerMap == [f \in Pool |-> OwnerOf(kernel_tables, pmem_used, f)]

AbstractPool == INSTANCE PagePool WITH owner <- OwnerMap

\* Every call of the page manager is a step of PagePool: alloc_page and
\* map_page_to take free frames only, free_page and realloc_page return those
\* of the pages they unmap, and no frame changes hands within one call, not
\* even when realloc_page allocates the new block before it frees the old one.
ImplementsPool == AbstractPool!Spec
=============================================================================

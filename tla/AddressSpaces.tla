--------------------------- MODULE AddressSpaces ---------------------------
(***************************************************************************)
(* Address spaces of src/memory/memory.c on top of the page manager:       *)
(* clone_tables copies the tables into pages of their own and switches to  *)
(* the copy, clone_user_pages gives the user pages of the current tables   *)
(* frames of their own, use_kernel_map goes back; trade_vaddr and          *)
(* map_page_secretly carry a frame from one space to the other, map_paddr  *)
(* and unmap_secret_page map a device's frame for a while.                 *)
(*                                                                         *)
(* kernel_tables are the tables in force, those the variable of that name  *)
(* and CR3 point to; the other space's are kept in other.  Nothing in the  *)
(* code destroys a space, and one clone is made at most (a bound).  Calls  *)
(* of PageManager are of single pages; contents are left out, as there.    *)
(***************************************************************************)
EXTENDS PageManager, FiniteSets

CONSTANTS
  FirstSequential,  \* where alloc_sequential starts to look for frames: 0x1000
  TablePages,       \* pages of a directory and its tables: 1025
  MaxMisuse         \* bound: calls go on until that many things went wrong

ASSUME SpacesAssumption ==
  /\ FirstSequential \in FirstFrame .. NFrames
  /\ TablePages \in 1 .. NPages
  /\ MaxMisuse \in Nat

VARIABLES
  current,    \* the space in force
  other,      \* the other one's tables, and what is held and lent in it
  window,     \* the pages clone_tables mapped for the copy, in order
  forked,     \* clone_user_pages returned true
  traded,     \* frames trade_vaddr took out of a space and no space has mapped
  \* Ghosts.
  inherited,  \* pages the spaces have shared since the clone was made
  misuse      \* which of the Misuses have happened

spaces == <<current, other, window, forked, traded>>
allVars == <<vars, spaces, inherited, misuse>>

(***************************************************************************)
(* What callers may do, and the code lets them, at the expense of the      *)
(* other space or of their own:                                            *)
(*  "freed"    an inherited page is freed in one space, its frame with it; *)
(*  "lent"     an inherited page's user bit is changed in one space;       *)
(*  "traded"   an inherited page is traded, while the other space has it;  *)
(*  "again"    clone_user_pages moves a page that shares its frame with    *)
(*             nobody, and forgets the frame;                              *)
(*  "stale"    the copy's own pages, or a device's, inherit user bits of   *)
(*             former holders.                                             *)
(***************************************************************************)
Misuses == {"freed", "lent", "traded", "again", "stale"}

MisuseIf(cond, kind) == misuse' = IF cond THEN misuse \cup {kind} ELSE misuse

Absent == [v \in Pages |-> [present |-> FALSE, address |-> 0, user |-> FALSE]]
Space(t, h, l) == [tables |-> t, held |-> h, lent |-> l]

SpacesInit ==
  /\ Init
  /\ current = "kernel" /\ other = Space(Absent, {}, {})
  /\ window = <<>> /\ forked = FALSE /\ traded = {}
  /\ inherited = {} /\ misuse = {}

Cloned == window # <<>>

\* A call of the page manager in the current space, which frees some pages.
Within(freed) ==
  /\ inherited' = inherited \ freed
  /\ MisuseIf(freed \cap inherited # {}, "freed")
  /\ UNCHANGED spaces

Lend(v, user) ==
  /\ mark_user(v, user)
  /\ MisuseIf(v \in inherited /\ user # kernel_tables[v].user, "lent")
  /\ UNCHANGED <<spaces, inherited>>

(***************************************************************************)
(* alloc_sequential(n): the lowest run of absent pages and the lowest run  *)
(* of free frames.  Kernel space has room for n pages (clone_tables' guard,*)
(* a bound), and the last frame is never free, so that neither search      *)
(* leaves its array; FrameScan has the search itself.                      *)
(***************************************************************************)
SequentialRuns(t, u, n) ==
  LET frames == {f \in FirstSequential .. NFrames - n : \A i \in 0 .. n - 1 : f + i \notin u}
  IN  {run \in Fits(t, n) \X frames :
         /\ \A p \in Fits(t, n) : run[1] <= p
         /\ \A f \in frames : run[2] <= f}

ClaimRun(u, fs) == u \cup {fs[i] : i \in DOMAIN fs}

\* The memset of alloc_sequential's NULL; page 0 is never mapped here.
CloneNowhere ==
  /\ SequentialRuns(kernel_tables, pmem_used, TablePages) = {}
  /\ halted' = TRUE
  /\ UNCHANGED <<pmem_used, kernel_tables, held, lent, breach, spaces, inherited, misuse>>

\* The copy is made when its own pages are mapped, and comes into force.
CloneInto(run) ==
  LET fs == [i \in 1 .. TablePages |-> run[2] + i - 1]
      copy == MapAddrs(kernel_tables, run[1], fs)
  IN  /\ kernel_tables' = copy
      /\ pmem_used' = ClaimRun(pmem_used, fs)
      /\ current' = "clone" /\ other' = Space(copy, held, lent)
      /\ window' = [i \in 1 .. TablePages |-> <<run[1] + i - 1, fs[i]>>]
      /\ inherited' = Mapped(copy)
      /\ MisuseIf(\E v \in Run(run[1], TablePages) : copy[v].user, "stale")
      /\ UNCHANGED <<halted, held, lent, breach, forked, traded>>

clone_tables ==
  /\ ~Cloned /\ Fits(kernel_tables, TablePages) # {}
  /\ \/ CloneNowhere
     \/ \E run \in SequentialRuns(kernel_tables, pmem_used, TablePages) : CloneInto(run)

\* Place of a user page in the order of the search.
Order(t, v) == Cardinality({w \in UserPages(t) : w <= v})

\* Slip: the frame of the copy is not claimed.
ClaimCopies_Not(u, fs) == u

ClaimCopies(u, fs) == ClaimAll(u, fs)

\* Slip: the first user page keeps its frame.
Moved_ButFirst(t, fs) == {v \in UserPages(t) : Order(t, v) \in DOMAIN fs \ {1}}

\* The user pages that find a frame, in order; false when one does not.
Moved(t, fs) == {v \in UserPages(t) : Order(t, v) \in DOMAIN fs}

clone_user_pages ==
  \E fs \in LowestFree(pmem_used, Cardinality(UserPages(kernel_tables))) :
    LET moved == Moved(kernel_tables, fs)
    IN  /\ kernel_tables' =
             [v \in Pages |->
                IF v \in moved
                THEN [kernel_tables[v] EXCEPT !.address = fs[Order(kernel_tables, v)]]
                ELSE kernel_tables[v]]
        /\ pmem_used' = ClaimCopies(pmem_used, fs)
        /\ inherited' = inherited \ moved
        /\ MisuseIf(moved \ inherited # {}, "again")
        /\ forked' = (forked \/ (Cloned /\ Len(fs) = Cardinality(UserPages(kernel_tables))))
        /\ UNCHANGED <<halted, held, lent, breach, current, other, window, traded>>

\* The other tables come into force: use_kernel_map, or switch_tables by a
\* caller that loads CR3 as clone_tables does.
SwitchTo(space) ==
  /\ Cloned /\ current # space
  /\ current' = space
  /\ kernel_tables' = other.tables /\ held' = other.held /\ lent' = other.lent
  /\ other' = Space(kernel_tables, held, lent)
  /\ UNCHANGED <<pmem_used, halted, breach, window, forked, traded, inherited, misuse>>

use_kernel_map == SwitchTo("kernel")
switch_tables == SwitchTo("clone")

\* Slip: the frame is released, as unmap_vaddr does.
trade_vaddr_Releases(v) ==
  /\ v \in held /\ kernel_tables[v].present /\ traded = {}
  /\ kernel_tables' = UnmapAll(kernel_tables, {v})
  /\ pmem_used' = ReleaseAll(pmem_used, kernel_tables, {v})
  /\ held' = held \ {v} /\ lent' = lent \ {v}
  /\ traded' = traded \cup {kernel_tables[v].address}
  /\ inherited' = inherited \ {v}
  /\ MisuseIf(v \in inherited, "traded")
  /\ UNCHANGED <<halted, breach, current, other, window, forked>>

\* The holder of a page takes it out of his space, and keeps the frame's address;
\* bound: one frame at a time.
trade_vaddr(v) ==
  /\ v \in held /\ kernel_tables[v].present /\ traded = {}
  /\ kernel_tables' = UnmapAll(kernel_tables, {v})
  /\ held' = held \ {v} /\ lent' = lent \ {v}
  /\ traded' = traded \cup {kernel_tables[v].address}
  /\ inherited' = inherited \ {v}
  /\ MisuseIf(v \in inherited, "traded")
  /\ UNCHANGED <<pmem_used, halted, breach, current, other, window, forked>>

\* A traded frame is mapped in the space in force, at a page that is absent.
map_page_secretly(v, f) ==
  /\ v # 0 /\ ~kernel_tables[v].present /\ f \in traded
  /\ kernel_tables' = MapAddrs(kernel_tables, v, <<f>>)
  /\ Give({v})
  /\ traded' = traded \ {f}
  /\ UNCHANGED <<pmem_used, halted, lent, breach, current, other, window, forked,
                 inherited, misuse>>

\* A device's frame, at the first page of kernel space that is absent, and nothing
\* if there is none.
map_paddr(f) ==
  /\ \E v \in Fits(kernel_tables, 1) :
       /\ \A w \in Fits(kernel_tables, 1) : v <= w
       /\ kernel_tables' = MapAddrs(kernel_tables, v, <<f>>)
       /\ MisuseIf(kernel_tables[v].user, "stale")
  /\ UNCHANGED <<pmem_used, halted, held, lent, breach, spaces, inherited>>

\* Pages that map_paddr mapped, in the current space or before it was cloned.
Secret == {v \in Pages \ DOMAIN BootMap :
             kernel_tables[v].present /\ kernel_tables[v].address \in Reserved}

unmap_secret_page(v) ==
  /\ v \in Secret
  /\ kernel_tables' = UnmapAll(kernel_tables, {v})
  /\ inherited' = inherited \ {v}
  /\ UNCHANGED <<pmem_used, halted, held, lent, breach, spaces, misuse>>

SpacesCall ==
  \/ alloc_page(1) /\ Within({})
  \/ \E v \in Pages : map_page_to(v) /\ Within({})
  \/ \E v \in Pages : free_page(v, 1) /\ Within({v})
  \/ free_all_user_pages /\ Within(UserPages(kernel_tables))
  \/ \E v \in Pages, user \in BOOLEAN : Lend(v, user)
  \/ clone_tables
  \/ clone_user_pages
  \/ use_kernel_map \/ switch_tables
  \/ \E v \in Pages : trade_vaddr(v) \/ unmap_secret_page(v)
  \/ \E v \in Pages, f \in traded : map_page_secretly(v, f)
  \/ \E f \in Reserved \ {0} : map_paddr(f)

\* Callers have misused the page manager as much as the bound allows.
Misused == Cardinality(misuse \cup breach) >= MaxMisuse

SpacesNext ==
  \/ ~halted /\ ~Misused /\ SpacesCall
  \/ (halted \/ Misused) /\ UNCHANGED allVars

SpacesSpec == SpacesInit /\ [][SpacesNext]_allVars

----------------------------------------------------------------------------
\* Properties.

SpacesTypeOK ==
  /\ TypeOK
  /\ current \in {"kernel", "clone"} /\ forked \in BOOLEAN
  /\ other.tables \in [Pages -> Entry]
  /\ other.held \subseteq Pages /\ other.lent \subseteq other.held
  /\ window = <<>> \/ window \in [1 .. TablePages -> Pages \X Frames]
  /\ traded \subseteq Frames /\ inherited \subseteq Pages /\ misuse \subseteq Misuses

Here(v) == kernel_tables[v]
There(v) == other.tables[v]
SameFrame(v, w) ==
  /\ Here(v).present /\ There(w).present
  /\ Here(v).address = There(w).address /\ Here(v).address \in Pool

\* No page that both spaces have was given up in one of them.
NoneGivenUp == misuse \cap {"freed", "traded"} = {}

\* The spaces share a frame only behind a page the clone was made with, and
\* at the same address, as long as no such page was freed or traded; a frame
\* that is traded from one to the other is never in both (memory.c:191-201,
\* 396, 479-484).
SharedOnlyInherited ==
  NoneGivenUp =>
    /\ \A v, w \in Pages : SameFrame(v, w) => v = w /\ v \in inherited
    /\ traded \cap (PoolMapped(kernel_tables) \cup PoolMapped(other.tables)) = {}

\* After a fork no space sees the frame of a user page of the other one,
\* unless one was freed or traded, or its user bit changed, in one of them (memory.c:470-504).
ForkIsolates ==
  forked /\ NoneGivenUp /\ "lent" \notin misuse =>
    \A v, w \in Pages : SameFrame(v, w) => ~Here(v).user /\ ~There(w).user

\* No stale user bit has hit anybody: neither the copy's own pages or a
\* device's, nor a holder whose page free_all_user_pages took.
NoneStale == "stale" \notin misuse /\ "stale_user" \notin breach

\* The bitmap is what the two spaces map together and what is on its way
\* between them: none of these frames may be handed out again as long as no
\* shared page is given up in one space, and only moving a page that shared its
\* frame with nobody loses one; and a device's frame stays reserved, unless a
\* stale user bit lets free_all_user_pages have its page, or leaves a holder with
\* a page that has become a device's (memory.c:191-201, 230-288, 391-411, 470-504).
InUse == PoolMapped(kernel_tables) \cup PoolMapped(other.tables) \cup (traded \cap Pool)
SpacesAccounted ==
  /\ SpacesTypeOK
  /\ NoneGivenUp => InUse \subseteq pmem_used
  /\ misuse = {} => pmem_used \cap Pool = InUse
  /\ NoneStale => ReservedKept

\* Both spaces keep the copy's own pages mapped to it, so that whoever is in
\* force edits the tables the processor walks.  Two things undo it: a stale
\* user bit, with which clone_user_pages moves the copy's own pages and
\* free_all_user_pages frees them, and a holder whose page free_all_user_pages
\* took, who frees it once more (memory.c:391-411).
CopyReachable ==
  NoneStale =>
    \A i \in DOMAIN window :
      /\ Here(window[i][1]).present /\ There(window[i][1]).present
      /\ Here(window[i][1]).address = window[i][2]
      /\ There(window[i][1]).address = window[i][2]
=============================================================================

-------------------------------- MODULE Boot --------------------------------
(***************************************************************************)
(* From the boot loader to the first message: the boot directory of        *)
(* boot.asm, paging_init of src/memory/memory.c, which replaces it in      *)
(* three stages and builds the bitmap of physical frames from the boot     *)
(* loader's memory map, up to the first vga_print after it, in pci_scan.   *)
(*                                                                         *)
(* The interrupt handlers touch only the kernel image in this time, so     *)
(* that they are left out; a page fault reaches isr_handler, which prints, *)
(* faults again and never returns.                                         *)
(***************************************************************************)
EXTENDS Integers, Sequences

CONSTANTS
  TableSize,   \* entries of the directory and of a page table: 1024
  KernelDir,   \* pagedir_addr: 768
  LowFrames,   \* frames below 1 MB: 0x100
  VgaFrame,    \* video memory: 0xB8
  PageBytes,   \* units of an address in a page: 0x1000
  MaxEntries,  \* how many entries of the memory map are looked at: 15
  MemoryMaps,  \* what the boot loader may leave: entries, and how many count
  InfoFrames   \* the frames it may leave them in

NFrames == TableSize * TableSize
Frames == 0 .. NFrames - 1
Pages == Frames
FirstFrame == 2 * TableSize    \* 8 MB
None == -1

MapEntry == [addr : Nat, len : Nat, type : 0 .. 5]

ASSUME SizesAssumption ==
  /\ TableSize \in Nat \ {0} /\ PageBytes \in Nat \ {0} /\ MaxEntries \in Nat \ {0}
  /\ KernelDir \in 1 .. TableSize - 4
  /\ LowFrames \in 1 .. TableSize - 2 /\ VgaFrame \in 1 .. LowFrames - 1

Disjoint(d, e) == d.addr + d.len <= e.addr \/ e.addr + e.len <= d.addr

\* The map proper is what the first count entries say; whatever happens to lie
\* behind them ends in zeros.  The boot loader works in low memory.
ASSUME MapsAssumption ==
  /\ \A m \in MemoryMaps :
       /\ m.entries \in Seq(MapEntry) /\ m.count \in 1 .. Len(m.entries)
       /\ \A i, j \in 1 .. m.count : i < j => Disjoint(m.entries[i], m.entries[j])
  /\ InfoFrames \subseteq 1 .. LowFrames - 1

VARIABLES
  pc,             \* what kernel_main does next
  halted,         \* a page fault happened
  space,          \* page |-> the frame the CPU finds behind it, or None
  kernel_tables,  \* page |-> the address in the new page tables, or None
  pmem_used,      \* the frames whose bit is set
  info, mmap,     \* frames of the multiboot info and of the memory map
  map,            \* the memory map
  i               \* the loop variable of the scan

vars == <<pc, halted, space, kernel_tables, pmem_used, info, mmap, map, i>>
loader == <<info, mmap, map>>

----------------------------------------------------------------------------
\* Pages and the tables that map them.

Dir(v) == v \div TableSize
Index(v) == v % TableSize

ImagePages == {v \in Pages : Dir(v) = KernelDir /\ Index(v) \in LowFrames .. TableSize - 2}
Window == {v \in Pages : Dir(v) = KernelDir + 1}    \* 0xC0400000
VgaPage == KernelDir * TableSize + VgaFrame         \* 0xC00B8000

\* 4 MB pages: the first one, and four for the kernel.
boot_page_directory ==
  [v \in Pages |-> IF Dir(v) = 0 THEN v
                   ELSE IF Dir(v) \in KernelDir .. KernelDir + 3 THEN v - KernelDir * TableSize
                   ELSE None]

\* The kernel's own table: the image, and the last page on video memory.
new_base_page_table ==
  [v \in Pages |-> IF v \in ImagePages THEN Index(v)
                   ELSE IF Dir(v) = KernelDir /\ Index(v) = TableSize - 1 THEN VgaFrame
                   ELSE None]

\* ... and the window onto the 4 MB of the new page tables.
full_kernel_table ==
  [v \in Pages |-> IF v \in Window THEN TableSize + Index(v) ELSE new_base_page_table[v]]

\* What each step reads or writes besides the image, where it runs.
Touched(step) ==
  ImagePages \cup
  CASE step \in {"vga_init", "print"} -> {VgaPage}
    [] step \in {"fill_tables", "link_tables"} -> Window
    [] step = "identity_map" -> Window
    [] step = "claim_all" -> {info}
    [] step = "scan" -> {mmap}
    [] OTHER -> {}

\* Slip: physptr <= addr + len.
Released_OneMore(e) ==
  LET steps == (e.len + PageBytes - 1) \div PageBytes
      cast(physptr) == (physptr % (NFrames * PageBytes)) \div PageBytes
  IN  IF e.type = 1 THEN {cast(e.addr + k * PageBytes) : k \in 0 .. steps} ELSE {}

\* The frames one entry of the map releases: physptr has 64 bits, the pointer
\* it is cast to has 32.
Released(e) ==
  LET steps == (e.len + PageBytes - 1) \div PageBytes
      cast(physptr) == (physptr % (NFrames * PageBytes)) \div PageBytes
  IN  IF e.type = 1 THEN {cast(e.addr + k * PageBytes) : k \in 0 .. steps - 1} ELSE {}

Zeros == [addr |-> 0, len |-> 0, type |-> 0]
EntryAt(n) == IF n < Len(map.entries) THEN map.entries[n + 1] ELSE Zeros

----------------------------------------------------------------------------
Init ==
  /\ pc = "vga_init" /\ halted = FALSE
  /\ space = boot_page_directory
  /\ kernel_tables = [v \in Pages |-> None]
  /\ pmem_used = {}
  /\ info \in InfoFrames /\ mmap \in InfoFrames
  /\ map \in MemoryMaps
  /\ i = 0

Run(step) ==
  /\ pc = step /\ ~halted
  /\ \A v \in Touched(step) : space[v] # None

Goto(step) == pc' = step /\ UNCHANGED <<halted, loader>>

\* vga_init clears the screen.
ClearScreen ==
  /\ Run("vga_init") /\ Goto("base_table")
  /\ UNCHANGED <<space, kernel_tables, pmem_used, i>>

\* Stage 1: a directory with nothing but the kernel's table.
LoadBaseTable ==
  /\ Run("base_table") /\ Goto("full_table")
  /\ space' = new_base_page_table
  /\ UNCHANGED <<kernel_tables, pmem_used, i>>

\* Stage 2: the window.
AddWindow ==
  /\ Run("full_table") /\ Goto("fill_tables")
  /\ space' = full_kernel_table
  /\ UNCHANGED <<kernel_tables, pmem_used, i>>

\* Slip: the new tables lack the image.
FillTables_WindowOnly ==
  /\ Run("fill_tables") /\ Goto("link_tables")
  /\ kernel_tables' = [v \in Pages |-> IF v \in Window THEN TableSize + Index(v) ELSE None]
  /\ UNCHANGED <<space, pmem_used, i>>

\* Stage 3: the new tables are cleared and get the same pages,
FillTables ==
  /\ Run("fill_tables") /\ Goto("link_tables")
  /\ kernel_tables' = full_kernel_table
  /\ UNCHANGED <<space, pmem_used, i>>

\* and every entry of the directory is pointed at its table.
LinkTables ==
  /\ Run("link_tables") /\ Goto("identity_map")
  /\ space' = kernel_tables
  /\ UNCHANGED <<kernel_tables, pmem_used, i>>

\* Slip: the TLB is not flushed.
identity_map_NoFlush ==
  /\ Run("identity_map") /\ Goto("claim_all")
  /\ pmem_used' = pmem_used \cup {info}
  /\ kernel_tables' = [kernel_tables EXCEPT ![info] = info]
  /\ UNCHANGED <<space, i>>

identity_map ==
  /\ Run("identity_map") /\ Goto("claim_all")
  /\ IF kernel_tables[info] = info
     THEN UNCHANGED <<space, kernel_tables, pmem_used>>
     ELSE /\ pmem_used' = pmem_used \cup {info}
          /\ kernel_tables' = [kernel_tables EXCEPT ![info] = info]
          /\ space' = kernel_tables'
  /\ UNCHANGED i

\* Reads where the map is and claims every frame.
ClaimEverything ==
  /\ Run("claim_all") /\ Goto("scan")
  /\ pmem_used' = Frames
  /\ UNCHANGED <<space, kernel_tables, i>>

ScanEntry ==
  /\ Run("scan")
  /\ IF i = MaxEntries \/ (i > 0 /\ EntryAt(i).addr = 0)
     THEN Goto("claim_low") /\ UNCHANGED <<pmem_used, i>>
     ELSE /\ Goto("scan")
          /\ pmem_used' = pmem_used \ Released(EntryAt(i))
          /\ i' = i + 1
  /\ UNCHANGED <<space, kernel_tables>>

ClaimLow ==
  /\ Run("claim_low") /\ Goto("print")
  /\ pmem_used' = pmem_used \cup 0 .. FirstFrame - 1
  /\ UNCHANGED <<space, kernel_tables, i>>

\* The model ends at the first vga_print, in pci_scan: it faults or not.
PageFault ==
  /\ ~halted /\ \E v \in Touched(pc) : space[v] = None
  /\ halted' = TRUE
  /\ UNCHANGED <<pc, space, kernel_tables, pmem_used, loader, i>>

Next ==
  \/ ClearScreen \/ LoadBaseTable \/ AddWindow \/ FillTables \/ LinkTables
  \/ identity_map \/ ClaimEverything \/ ScanEntry \/ ClaimLow
  \/ PageFault

Spec == Init /\ [][Next]_vars

----------------------------------------------------------------------------
Linked == pc \in {"identity_map", "claim_all", "scan", "claim_low", "print"}
Scanned == pc = "print"

Available(e, f) ==
  e.type = 1 /\ e.addr <= f * PageBytes /\ (f + 1) * PageBytes <= e.addr + e.len
Counted == {map.entries[n] : n \in 1 .. map.count}

\* The frames above 8 MB that the memory map calls available.
GeneralPurpose == {f \in FirstFrame .. NFrames - 1 : \E e \in Counted : Available(e, f)}

(***************************************************************************)
(* What keeps the bitmap from being the memory map's:                      *)
(*  "partial"  an available region begins or ends inside a page;           *)
(*  "above"    one goes beyond 4 GB, where the cast wraps;                 *)
(*  "cut"      the scan ends before the map does, after MaxEntries or at   *)
(*             a region that starts at 0 and is not the first;             *)
(*  "stray"    it goes on behind the map, whose length it never asks for.  *)
(***************************************************************************)
Spoilers ==
  {kind \in {"partial", "above", "cut", "stray"} :
     CASE kind = "partial" ->
            \E e \in Counted : e.type = 1 /\ (e.addr % PageBytes # 0 \/ e.len % PageBytes # 0)
       [] kind = "above" ->
            \E e \in Counted : e.type = 1 /\ e.addr + e.len > NFrames * PageBytes
       [] kind = "cut" ->
            map.count > MaxEntries \/ \E n \in 2 .. map.count : map.entries[n].addr = 0
       [] kind = "stray" ->
            map.count < MaxEntries /\ EntryAt(map.count).addr # 0}

TypeOK ==
  /\ pc \in {"vga_init", "base_table", "full_table", "fill_tables", "link_tables"} \/ Linked
  /\ halted \in BOOLEAN
  /\ space \in [Pages -> Frames \cup {None}]
  /\ kernel_tables \in [Pages -> Frames \cup {None}]
  /\ pmem_used \subseteq Frames
  /\ info \in InfoFrames /\ mmap \in InfoFrames
  /\ i \in 0 .. MaxEntries

\* Through every switch of tables the kernel image, with the stack and the
\* data, stays mapped to the frames it was loaded into, and from stage 3 on so
\* does the window; no switch takes a page away but the ones of stages 1 and 2.
KernelStays ==
  [][\A v \in Pages :
       \/ space'[v] = space[v]
       \/ space[v] = None /\ v = info
       \/ pc \in {"base_table", "full_table"} /\ v \notin ImagePages]_vars

\* Once the directory is linked, the CPU walks the tables the kernel writes:
\* the window shows the frames the directory points at, all of them and in
\* order, and what is written there is what the CPU translates with.
\* paging_init never faults on the way, except where it reads a memory map that
\* is not on the page of the multiboot info, the only one it maps.
TablesReachable ==
  /\ TypeOK
  /\ Linked => /\ space = kernel_tables
               /\ \A v \in Window : space[v] = TableSize + Index(v)
  /\ halted => pc = "print" \/ (pc = "scan" /\ mmap # info)

\* The page manager takes over tables and a bitmap that agree: everything
\* below 8 MB and every frame behind a page is claimed, and page 0 is free
\* to be NULL.  What can be handed out is exactly the memory above 8 MB that
\* the boot loader called available, unless one of the Spoilers is in its map;
\* there is no fifth way to lose memory or to hand out what is none.
HandsOver ==
  Scanned =>
    /\ 0 .. FirstFrame - 1 \subseteq pmem_used
    /\ \A v \in Pages : kernel_tables[v] # None => kernel_tables[v] \in pmem_used
    /\ kernel_tables[0] = None
    /\ Spoilers = {} => Frames \ pmem_used = GeneralPurpose

\* vga.h:17 has video memory at 0xC00B8000 ("the numbers are right"), and
\* vga_init leaves vga_buffer there for good.
VideoMapped == ~halted => space[VgaPage] = VgaFrame
=============================================================================

----------------------------- MODULE BootProofs -----------------------------
(***************************************************************************)
(* Proofs about Boot, for every size of the tables that holds the kernel,  *)
(* every memory map the boot loader may leave and wherever it leaves it.   *)
(*                                                                         *)
(* The invariant says at each place of kernel_main what the CPU translates *)
(* with, and in the scan of the memory map which entries it has released.  *)
(***************************************************************************)
EXTENDS Boot, TLAPS

\* The tables of stage 3 once paging_init has mapped the boot loader's page.
tables_with_info == [full_kernel_table EXCEPT ![info] = info]

Translated ==
  /\ pc \in {"vga_init", "base_table"} => space = boot_page_directory
  /\ pc = "full_table" => space = new_base_page_table
  /\ pc \in {"fill_tables", "link_tables"} => space = full_kernel_table
  /\ pc \in {"link_tables", "identity_map"} => kernel_tables = full_kernel_table
  /\ Linked => space = kernel_tables
  /\ pc \in {"claim_all", "scan", "claim_low", "print"} => kernel_tables = tables_with_info

FaultsOnlyLate == halted => pc = "print" \/ (pc = "scan" /\ mmap # info)

\* The entries the scan has passed, and what they released.
Looked == {EntryAt(n) : n \in 0 .. i - 1}
ReleasedSoFar == UNION {Released(e) : e \in Looked}

\* An entry at address 0 that is not the first ends the scan.
PassedNoEnd == \A n \in 1 .. i - 1 : EntryAt(n).addr # 0
AtEnd == i = MaxEntries \/ (i > 0 /\ EntryAt(i).addr = 0)

ScanSoFar ==
  /\ map \in MemoryMaps
  /\ pc = "scan" => pmem_used = Frames \ ReleasedSoFar /\ PassedNoEnd
  /\ pc = "claim_low" => pmem_used = Frames \ ReleasedSoFar /\ PassedNoEnd /\ AtEnd
  /\ pc = "print" => /\ pmem_used = (Frames \ ReleasedSoFar) \cup 0 .. FirstFrame - 1
                     /\ PassedNoEnd /\ AtEnd
  /\ pc \notin {"scan", "claim_low", "print"} => i = 0

BootInv == TypeOK /\ Translated /\ FaultsOnlyLate /\ ScanSoFar

----------------------------------------------------------------------------
\* Arithmetic of pages and tables.
LEMMA DivMul ==
  ASSUME NEW a \in Nat, NEW m \in Nat \ {0}, NEW b \in 0 .. m - 1
  PROVE  (a * m + b) \div m = a /\ (a * m + b) % m = b
BY SMT

LEMMA DivDef ==
  ASSUME NEW x \in Nat, NEW m \in Nat \ {0}
  PROVE  /\ x = (x \div m) * m + (x % m)
         /\ x % m \in 0 .. m - 1
         /\ x \div m \in Nat
BY SMT

LEMMA Sizes ==
  /\ TableSize \in Nat /\ TableSize >= 5
  /\ NFrames \in Nat /\ NFrames >= 5 * TableSize /\ FirstFrame = 2 * TableSize
  /\ KernelDir \in 1 .. TableSize - 4 /\ LowFrames \in 1 .. TableSize - 2
  /\ VgaFrame \in 1 .. LowFrames - 1
<1>1. TableSize \in Nat /\ TableSize >= 5
  BY SizesAssumption
<1>2. TableSize * TableSize \in Nat /\ TableSize * TableSize >= 5 * TableSize
  BY <1>1, SMT
<1> QED
  BY <1>1, <1>2, SizesAssumption DEF NFrames, FirstFrame

LEMMA PageParts ==
  ASSUME NEW v \in Pages
  PROVE  /\ v \in Nat /\ v = Dir(v) * TableSize + Index(v)
         /\ Dir(v) \in Nat /\ Index(v) \in 0 .. TableSize - 1
<1>1. v \in Nat /\ TableSize \in Nat \ {0}
  BY Sizes DEF Pages, Frames
<1> QED
  BY <1>1, DivDef DEF Dir, Index

\* A low frame is a page of the first table.
LEMMA LowPage ==
  ASSUME NEW f \in 0 .. LowFrames - 1
  PROVE  f \in Pages /\ Dir(f) = 0 /\ Index(f) = f
<1>1. (0 * TableSize + f) \div TableSize = 0 /\ (0 * TableSize + f) % TableSize = f
  BY Sizes, DivMul
<1>2. 0 * TableSize + f = f
  BY Sizes
<1> QED
  BY <1>1, <1>2, Sizes DEF Pages, Frames, Dir, Index

LEMMA VgaPageParts == VgaPage \in Pages /\ Dir(VgaPage) = KernelDir /\ Index(VgaPage) = VgaFrame
<1>1. Dir(VgaPage) = KernelDir /\ Index(VgaPage) = VgaFrame
  BY Sizes, DivMul DEF VgaPage, Dir, Index
<1>2. KernelDir * TableSize \in Nat /\ KernelDir * TableSize <= (TableSize - 4) * TableSize
  BY Sizes, SMT
<1>3. (TableSize - 4) * TableSize = NFrames - 4 * TableSize
  BY Sizes DEF NFrames
<1>4. VgaPage \in 0 .. NFrames - 1
  BY <1>2, <1>3, Sizes DEF VgaPage
<1> QED
  BY <1>1, <1>4 DEF Pages, Frames

\* What the tables hold, page by page.
LEMMA BootPages ==
  ASSUME NEW v \in Pages
  PROVE  /\ boot_page_directory[v] \in Frames \cup {None}
         /\ Dir(v) = KernelDir => boot_page_directory[v] = Index(v)
<1>1. v \in 0 .. NFrames - 1 /\ v = Dir(v) * TableSize + Index(v)
      /\ Dir(v) \in Nat /\ Index(v) \in 0 .. TableSize - 1
  BY PageParts DEF Pages, Frames
<1>2. boot_page_directory[v] =
        IF Dir(v) = 0 THEN v
        ELSE IF Dir(v) \in KernelDir .. KernelDir + 3 THEN v - KernelDir * TableSize
        ELSE None
  BY DEF boot_page_directory
<1>3. KernelDir * TableSize \in Nat
  BY Sizes
<1>4. ASSUME Dir(v) >= KernelDir PROVE Dir(v) * TableSize >= KernelDir * TableSize
  BY <1>1, <1>4, Sizes, SMT
<1>5. boot_page_directory[v] \in Frames \cup {None}
  BY <1>1, <1>2, <1>3, <1>4, Sizes DEF Frames, None
<1>6. ASSUME Dir(v) = KernelDir PROVE boot_page_directory[v] = Index(v)
  BY <1>1, <1>2, <1>3, <1>6, Sizes
<1> QED
  BY <1>5, <1>6

LEMMA BasePages ==
  ASSUME NEW v \in Pages
  PROVE  /\ new_base_page_table[v] \in 0 .. TableSize - 1 \cup {None}
         /\ v \in ImagePages => new_base_page_table[v] = Index(v)
         /\ Dir(v) # KernelDir => new_base_page_table[v] = None
         /\ Dir(v) = KernelDir /\ Index(v) < LowFrames => new_base_page_table[v] = None
<1>1. Index(v) \in 0 .. TableSize - 1
  BY PageParts
<1>2. new_base_page_table[v] =
        IF v \in ImagePages THEN Index(v)
        ELSE IF Dir(v) = KernelDir /\ Index(v) = TableSize - 1 THEN VgaFrame
        ELSE None
  BY DEF new_base_page_table
<1>3. v \in ImagePages <=> Dir(v) = KernelDir /\ Index(v) \in LowFrames .. TableSize - 2
  BY DEF ImagePages
<1> QED
  BY <1>1, <1>2, <1>3, Sizes

LEMMA FullPages ==
  ASSUME NEW v \in Pages
  PROVE  /\ full_kernel_table[v] \in 0 .. FirstFrame - 1 \cup {None}
         /\ v \in ImagePages => full_kernel_table[v] = Index(v)
         /\ v \in Window => full_kernel_table[v] = TableSize + Index(v)
         /\ Dir(v) \notin {KernelDir, KernelDir + 1} => full_kernel_table[v] = None
         /\ v \notin Window => full_kernel_table[v] = new_base_page_table[v]
<1>1. Index(v) \in 0 .. TableSize - 1 /\ Dir(v) \in Nat
  BY PageParts
<1>2. full_kernel_table[v] = IF v \in Window THEN TableSize + Index(v) ELSE new_base_page_table[v]
  BY DEF full_kernel_table
<1>3. (v \in Window <=> Dir(v) = KernelDir + 1) /\ (v \in ImagePages => Dir(v) = KernelDir)
  BY DEF Window, ImagePages
<1>4. v \in ImagePages => v \notin Window
  BY <1>1, <1>3, Sizes
<1>5. full_kernel_table[v] \in 0 .. FirstFrame - 1 \cup {None}
  BY <1>1, <1>2, BasePages, Sizes
<1> QED
  BY <1>2, <1>3, <1>4, <1>5, BasePages

\* The page that holds the boot loader's information.
LEMMA InfoPage ==
  ASSUME NEW f \in InfoFrames
  PROVE  /\ f \in Pages /\ f \in 1 .. LowFrames - 1 /\ f \in Frames
         /\ f \notin ImagePages /\ f \notin Window
         /\ full_kernel_table[f] = None
<1>1. f \in 0 .. LowFrames - 1 /\ f \in 1 .. LowFrames - 1
  BY MapsAssumption, Sizes
<1>2. f \in Pages /\ Dir(f) = 0
  BY <1>1, LowPage
<1>3. Dir(f) \notin {KernelDir, KernelDir + 1}
  BY <1>2, Sizes
<1> QED
  BY <1>1, <1>2, <1>3, FullPages DEF Pages, ImagePages, Window

LEMMA InfoTable ==
  ASSUME info \in InfoFrames
  PROVE  /\ tables_with_info \in [Pages -> Frames \cup {None}]
         /\ tables_with_info[info] = info
         /\ \A v \in Pages : v # info => tables_with_info[v] = full_kernel_table[v]
         /\ \A v \in Pages : tables_with_info[v] \in 0 .. FirstFrame - 1 \cup {None}
<1>1. full_kernel_table \in [Pages -> 0 .. FirstFrame - 1 \cup {None}]
  BY FullPages DEF full_kernel_table
<1>2. info \in Pages /\ info \in 0 .. FirstFrame - 1
  BY InfoPage, Sizes
<1>3. tables_with_info \in [Pages -> 0 .. FirstFrame - 1 \cup {None}]
  BY <1>1, <1>2 DEF tables_with_info
<1>4. 0 .. FirstFrame - 1 \subseteq Frames
  BY Sizes DEF Frames
<1> QED
  BY <1>1, <1>2, <1>3, <1>4 DEF tables_with_info

----------------------------------------------------------------------------
LEMMA BootInit == Init => BootInv
<1> SUFFICES ASSUME Init PROVE BootInv
  OBVIOUS
<1>1. boot_page_directory \in [Pages -> Frames \cup {None}]
  BY BootPages DEF boot_page_directory
<1>2. TypeOK
  <2>1. space \in [Pages -> Frames \cup {None}] /\ kernel_tables \in [Pages -> Frames \cup {None}]
    BY <1>1 DEF Init
  <2>2. i \in 0 .. MaxEntries
    BY SizesAssumption DEF Init
  <2> QED
    BY <2>1, <2>2 DEF Init, TypeOK
<1>3. Translated /\ FaultsOnlyLate /\ ScanSoFar
  BY DEF Init, Translated, Linked, FaultsOnlyLate, ScanSoFar
<1> QED
  BY <1>2, <1>3 DEF BootInv

\* Before the scan of the memory map, i is 0.
LEMMA EarlyStep ==
  ASSUME BootInv, UNCHANGED <<halted, loader, i>>, pc # pc',
         pc \notin {"scan", "claim_low", "print"}, pc' \notin {"claim_low", "print"}
  PROVE  /\ FaultsOnlyLate' /\ info' \in InfoFrames /\ mmap' \in InfoFrames /\ i' \in 0 .. MaxEntries
         /\ halted' \in BOOLEAN /\ map' \in MemoryMaps /\ i' = 0
         /\ pc' # "scan" => ScanSoFar'
BY DEF BootInv, TypeOK, FaultsOnlyLate, ScanSoFar, loader

LEMMA ClearScreenStep == BootInv /\ ClearScreen => BootInv'
<1> SUFFICES ASSUME BootInv, ClearScreen PROVE BootInv'
  OBVIOUS
<1>1. /\ pc = "vga_init" /\ pc' = "base_table"
      /\ UNCHANGED <<halted, loader, i>> /\ UNCHANGED <<space, kernel_tables, pmem_used>>
  BY DEF ClearScreen, Run, Goto
<1>2. TypeOK' /\ Translated'
  BY <1>1, EarlyStep DEF BootInv, TypeOK, Translated, Linked
<1> QED
  BY <1>1, <1>2, EarlyStep DEF BootInv

LEMMA BaseTableStep == BootInv /\ LoadBaseTable => BootInv'
<1> SUFFICES ASSUME BootInv, LoadBaseTable PROVE BootInv'
  OBVIOUS
<1>1. /\ pc = "base_table" /\ pc' = "full_table" /\ space' = new_base_page_table
      /\ UNCHANGED <<halted, loader, i>> /\ UNCHANGED <<kernel_tables, pmem_used>>
  BY DEF LoadBaseTable, Run, Goto
<1>2. new_base_page_table \in [Pages -> Frames \cup {None}]
  <2>1. 0 .. TableSize - 1 \subseteq Frames
    BY Sizes DEF Frames
  <2> QED
    BY <2>1, BasePages DEF new_base_page_table
<1>3. TypeOK' /\ Translated'
  BY <1>1, <1>2, EarlyStep DEF BootInv, TypeOK, Translated, Linked
<1> QED
  BY <1>1, <1>3, EarlyStep DEF BootInv

LEMMA FullType == full_kernel_table \in [Pages -> Frames \cup {None}]
<1>1. 0 .. FirstFrame - 1 \subseteq Frames
  BY Sizes DEF Frames
<1> QED
  BY <1>1, FullPages DEF full_kernel_table

LEMMA WindowStep == BootInv /\ AddWindow => BootInv'
<1> SUFFICES ASSUME BootInv, AddWindow PROVE BootInv'
  OBVIOUS
<1>1. /\ pc = "full_table" /\ pc' = "fill_tables" /\ space' = full_kernel_table
      /\ UNCHANGED <<halted, loader, i>> /\ UNCHANGED <<kernel_tables, pmem_used>>
  BY DEF AddWindow, Run, Goto
<1>2. TypeOK' /\ Translated'
  BY <1>1, FullType, EarlyStep DEF BootInv, TypeOK, Translated, Linked
<1> QED
  BY <1>1, <1>2, EarlyStep DEF BootInv

LEMMA FillTablesStep == BootInv /\ FillTables => BootInv'
<1> SUFFICES ASSUME BootInv, FillTables PROVE BootInv'
  OBVIOUS
<1>1. /\ pc = "fill_tables" /\ pc' = "link_tables" /\ kernel_tables' = full_kernel_table
      /\ UNCHANGED <<halted, loader, i>> /\ UNCHANGED <<space, pmem_used>>
  BY DEF FillTables, Run, Goto
<1>2. TypeOK' /\ Translated'
  BY <1>1, FullType, EarlyStep DEF BootInv, TypeOK, Translated, Linked
<1> QED
  BY <1>1, <1>2, EarlyStep DEF BootInv

LEMMA LinkStep == BootInv /\ LinkTables => BootInv'
<1> SUFFICES ASSUME BootInv, LinkTables PROVE BootInv'
  OBVIOUS
<1>1. /\ pc = "link_tables" /\ pc' = "identity_map" /\ space' = kernel_tables
      /\ UNCHANGED <<halted, loader, i>> /\ UNCHANGED <<kernel_tables, pmem_used>>
  BY DEF LinkTables, Run, Goto
<1>2. TypeOK' /\ Translated'
  BY <1>1, EarlyStep DEF BootInv, TypeOK, Translated, Linked
<1> QED
  BY <1>1, <1>2, EarlyStep DEF BootInv

\* The boot loader's page is mapped by nothing before, so that identity_map
\* always adds it.
LEMMA IdentityEffect ==
  ASSUME BootInv, identity_map
  PROVE  /\ pc = "identity_map" /\ pc' = "claim_all" /\ UNCHANGED <<halted, loader, i>>
         /\ pmem_used' = pmem_used \cup {info}
         /\ kernel_tables = full_kernel_table /\ space = full_kernel_table
         /\ kernel_tables' = tables_with_info /\ space' = tables_with_info
         /\ tables_with_info' = tables_with_info /\ info \in InfoFrames
<1>1. pc = "identity_map" /\ pc' = "claim_all" /\ UNCHANGED <<halted, loader, i>>
  BY DEF identity_map, Run, Goto
<1>2. kernel_tables = full_kernel_table /\ space = full_kernel_table /\ info \in InfoFrames
  BY <1>1 DEF BootInv, Translated, TypeOK, Linked
<1>3. kernel_tables[info] # info
  BY <1>2, InfoPage, Sizes DEF None
<1>4. /\ pmem_used' = pmem_used \cup {info}
      /\ kernel_tables' = tables_with_info /\ space' = tables_with_info
  BY <1>2, <1>3 DEF identity_map, tables_with_info
<1>5. tables_with_info' = tables_with_info
  BY <1>1 DEF tables_with_info, loader
<1> QED
  BY <1>1, <1>2, <1>4, <1>5

LEMMA IdentityStep == BootInv /\ identity_map => BootInv'
<1> SUFFICES ASSUME BootInv, identity_map PROVE BootInv'
  OBVIOUS
<1> HIDE DEF tables_with_info
<1>1. TypeOK'
  BY IdentityEffect, InfoTable, InfoPage, EarlyStep DEF BootInv, TypeOK, Linked
<1>2. Translated'
  BY IdentityEffect DEF Translated, Linked
<1> QED
  BY <1>1, <1>2, IdentityEffect, EarlyStep DEF BootInv

\* With the tables in place, only pc, the bitmap and i go on.
LEMMA LateTables ==
  ASSUME BootInv, UNCHANGED <<space, kernel_tables, halted, loader>>,
         pc \in {"claim_all", "scan", "claim_low"}, pc' \in {"scan", "claim_low", "print"},
         pc = "scan" => pc' = "scan" \/ ~halted
  PROVE  /\ Translated'
         /\ pmem_used' \subseteq Frames /\ i' \in 0 .. MaxEntries => TypeOK'
<1>1. tables_with_info' = tables_with_info
  BY DEF tables_with_info, loader
<1>2. Translated'
  BY <1>1 DEF BootInv, Translated, Linked
<1>3. pmem_used' \subseteq Frames /\ i' \in 0 .. MaxEntries => TypeOK'
  BY DEF BootInv, TypeOK, Linked, loader
<1> QED
  BY <1>2, <1>3

LEMMA ClaimAllStep == BootInv /\ ClaimEverything => BootInv'
<1> SUFFICES ASSUME BootInv, ClaimEverything PROVE BootInv'
  OBVIOUS
<1>1. /\ pc = "claim_all" /\ pc' = "scan" /\ pmem_used' = Frames /\ ~halted
      /\ UNCHANGED <<halted, loader>> /\ UNCHANGED <<space, kernel_tables, i>>
  BY DEF ClaimEverything, Run, Goto
<1>2. i = 0 /\ map \in MemoryMaps
  BY <1>1 DEF BootInv, ScanSoFar
<1>3. ReleasedSoFar' = {}
  BY <1>1, <1>2 DEF ReleasedSoFar, Looked
<1>4. ScanSoFar'
  BY <1>1, <1>2, <1>3 DEF ScanSoFar, PassedNoEnd, loader
<1>5. i' \in 0 .. MaxEntries
  BY <1>1 DEF BootInv, TypeOK
<1> QED
  BY <1>1, <1>4, <1>5, LateTables DEF BootInv, FaultsOnlyLate, loader

LEMMA SameEntries ==
  ASSUME UNCHANGED <<map, i>>
  PROVE  ReleasedSoFar' = ReleasedSoFar /\ PassedNoEnd' = PassedNoEnd /\ AtEnd' = AtEnd
BY DEF ReleasedSoFar, Looked, PassedNoEnd, AtEnd, EntryAt

LEMMA ScanStep == BootInv /\ ScanEntry => BootInv'
<1> SUFFICES ASSUME BootInv, ScanEntry PROVE BootInv'
  OBVIOUS
<1>1. /\ pc = "scan" /\ ~halted /\ UNCHANGED <<halted, loader>> /\ UNCHANGED <<space, kernel_tables>>
  BY DEF ScanEntry, Run, Goto
<1>2. /\ i \in 0 .. MaxEntries /\ MaxEntries \in Nat /\ map \in MemoryMaps
      /\ pmem_used = Frames \ ReleasedSoFar /\ PassedNoEnd /\ UNCHANGED map
  BY <1>1, SizesAssumption DEF BootInv, TypeOK, ScanSoFar, loader
<1>3. CASE AtEnd
  <2>1. pc' = "claim_low" /\ UNCHANGED <<pmem_used, i>>
    BY <1>3 DEF ScanEntry, AtEnd, Goto
  <2>2. ScanSoFar'
    BY <1>2, <1>3, <2>1, SameEntries DEF ScanSoFar
  <2> QED
    BY <1>1, <1>2, <2>1, <2>2, LateTables DEF BootInv, FaultsOnlyLate, TypeOK, loader
<1>4. CASE ~AtEnd
  <2>1. pc' = "scan" /\ pmem_used' = pmem_used \ Released(EntryAt(i)) /\ i' = i + 1
    BY <1>4 DEF ScanEntry, AtEnd, Goto
  <2>2. \A n : EntryAt(n)' = EntryAt(n)
    BY <1>2 DEF EntryAt
  <2>3. \A n : n \in 0 .. i' - 1 <=> n \in 0 .. i - 1 \/ n = i
    BY <1>2, <2>1
  <2>4. Looked' = Looked \cup {EntryAt(i)}
    BY <2>2, <2>3 DEF Looked
  <2>5. pmem_used' = Frames \ ReleasedSoFar'
    <3>1. \A e : Released(e)' = Released(e)
      BY DEF Released
    <3>2. ReleasedSoFar' = ReleasedSoFar \cup Released(EntryAt(i))
      BY <2>4, <3>1 DEF ReleasedSoFar
    <3> QED
      BY <1>2, <2>1, <3>2
  <2>6. PassedNoEnd'
    <3> SUFFICES ASSUME NEW n \in 1 .. i' - 1 PROVE EntryAt(n).addr # 0
      BY <2>2 DEF PassedNoEnd
    <3>1. n \in 1 .. i - 1 \/ (n = i /\ i > 0)
      BY <1>2, <2>1
    <3> QED
      BY <1>2, <1>4, <3>1 DEF PassedNoEnd, AtEnd
  <2>7. ScanSoFar'
    BY <1>2, <2>1, <2>5, <2>6 DEF ScanSoFar
  <2>8. i' \in 0 .. MaxEntries
    BY <1>2, <1>4, <2>1 DEF AtEnd
  <2>9. pmem_used' \subseteq Frames
    BY <2>5
  <2> QED
    BY <1>1, <2>1, <2>7, <2>8, <2>9, LateTables DEF BootInv, FaultsOnlyLate, loader
<1> QED
  BY <1>3, <1>4

LEMMA ClaimLowStep == BootInv /\ ClaimLow => BootInv'
<1> SUFFICES ASSUME BootInv, ClaimLow PROVE BootInv'
  OBVIOUS
<1>1. /\ pc = "claim_low" /\ pc' = "print" /\ ~halted
      /\ pmem_used' = pmem_used \cup 0 .. FirstFrame - 1
      /\ UNCHANGED <<halted, loader>> /\ UNCHANGED <<space, kernel_tables, i>>
  BY DEF ClaimLow, Run, Goto
<1>2. UNCHANGED map
  BY <1>1 DEF loader
<1>3. ScanSoFar'
  BY <1>1, <1>2, SameEntries DEF BootInv, ScanSoFar
<1>4. pmem_used' \subseteq Frames /\ i' \in 0 .. MaxEntries
  <2>1. 0 .. FirstFrame - 1 \subseteq Frames
    BY Sizes DEF Frames
  <2> QED
    BY <1>1, <2>1 DEF BootInv, TypeOK
<1> QED
  BY <1>1, <1>3, <1>4, LateTables DEF BootInv, FaultsOnlyLate, loader

----------------------------------------------------------------------------
\* Every page a step needs is behind the tables of its time, except the memory
\* map's and, for the message, video memory's.
LEMMA ImageThere ==
  ASSUME BootInv, NEW v \in ImagePages
  PROVE  space[v] = Index(v) /\ space[v] # None
<1>1. v \in Pages /\ Dir(v) = KernelDir /\ Index(v) \in Nat
  BY PageParts DEF ImagePages
<1>2. boot_page_directory[v] = Index(v) /\ new_base_page_table[v] = Index(v)
      /\ full_kernel_table[v] = Index(v)
  BY <1>1, BootPages, BasePages, FullPages
<1>3. v # info /\ tables_with_info[v] = Index(v)
  BY <1>1, <1>2, InfoPage, InfoTable DEF BootInv, TypeOK
<1>4. space[v] = Index(v)
  BY <1>2, <1>3 DEF BootInv, TypeOK, Translated, Linked
<1> QED
  BY <1>1, <1>4 DEF None

LEMMA WindowThere ==
  ASSUME BootInv, NEW v \in Window,
         Linked \/ pc \in {"fill_tables", "link_tables"}
  PROVE  space[v] = TableSize + Index(v) /\ space[v] # None
<1>1. v \in Pages /\ Index(v) \in Nat
  BY PageParts DEF Window
<1>2. full_kernel_table[v] = TableSize + Index(v)
  BY <1>1, FullPages
<1>3. v # info /\ tables_with_info[v] = TableSize + Index(v)
  BY <1>1, <1>2, InfoPage, InfoTable DEF BootInv, TypeOK
<1>4. space[v] = TableSize + Index(v)
  BY <1>2, <1>3 DEF BootInv, TypeOK, Translated, Linked
<1> QED
  BY <1>1, <1>4, Sizes DEF None

LEMMA FaultStep == BootInv /\ PageFault => BootInv'
<1> SUFFICES ASSUME BootInv, PageFault PROVE BootInv'
  OBVIOUS
<1>1. halted' = TRUE /\ UNCHANGED <<pc, space, kernel_tables, pmem_used, loader, i>>
  BY DEF PageFault
<1>2. PICK v \in Touched(pc) : space[v] = None
  BY DEF PageFault
<1>3. v \notin ImagePages
  BY <1>2, ImageThere
<1>4. pc # "vga_init"
  <2> SUFFICES ASSUME pc = "vga_init" PROVE FALSE
    OBVIOUS
  <2>1. v = VgaPage
    BY <1>2, <1>3 DEF Touched
  <2>2. space[v] = Index(v) /\ Index(v) \in Nat
    BY <2>1, VgaPageParts, BootPages, PageParts DEF BootInv, Translated
  <2> QED
    BY <1>2, <2>2 DEF None
<1>5. pc \notin {"fill_tables", "link_tables", "identity_map"}
  <2> SUFFICES ASSUME pc \in {"fill_tables", "link_tables", "identity_map"} PROVE FALSE
    OBVIOUS
  <2>1. v \in Window
    BY <1>2, <1>3 DEF Touched
  <2> QED
    BY <1>2, <2>1, WindowThere DEF Linked
<1>6. pc # "claim_all"
  <2> SUFFICES ASSUME pc = "claim_all" PROVE FALSE
    OBVIOUS
  <2>1. v = info
    BY <1>2, <1>3 DEF Touched
  <2>2. space[info] = info /\ info \in Nat
    BY InfoTable, InfoPage, Sizes DEF BootInv, TypeOK, Translated, Linked
  <2> QED
    BY <1>2, <2>1, <2>2 DEF None
<1>7. pc = "scan" => mmap # info
  <2> SUFFICES ASSUME pc = "scan", mmap = info PROVE FALSE
    OBVIOUS
  <2>1. v = info
    BY <1>2, <1>3 DEF Touched
  <2>2. space[info] = info /\ info \in Nat
    BY InfoTable, InfoPage, Sizes DEF BootInv, TypeOK, Translated, Linked
  <2> QED
    BY <1>2, <2>1, <2>2 DEF None
<1>8. pc \notin {"base_table", "full_table", "claim_low"}
  BY <1>2, <1>3 DEF Touched
<1>9. FaultsOnlyLate'
  BY <1>1, <1>4, <1>5, <1>6, <1>7, <1>8 DEF FaultsOnlyLate, BootInv, TypeOK, Linked, loader
<1>10. TypeOK' /\ Translated'
  BY <1>1 DEF BootInv, TypeOK, Translated, Linked, loader, tables_with_info
<1>11. ScanSoFar'
  BY <1>1, SameEntries DEF BootInv, ScanSoFar, loader
<1> QED
  BY <1>9, <1>10, <1>11 DEF BootInv

LEMMA BootStutter == BootInv /\ UNCHANGED vars => BootInv'
<1> SUFFICES ASSUME BootInv, UNCHANGED vars PROVE BootInv'
  OBVIOUS
<1>1. UNCHANGED <<pc, halted, space, kernel_tables, pmem_used, info, mmap, map, i>>
  BY DEF vars
<1>2. TypeOK' /\ Translated' /\ FaultsOnlyLate'
  BY <1>1 DEF BootInv, TypeOK, Translated, Linked, FaultsOnlyLate, tables_with_info
<1>3. ScanSoFar'
  BY <1>1, SameEntries DEF BootInv, ScanSoFar
<1> QED
  BY <1>2, <1>3 DEF BootInv

THEOREM BootInvariance == Spec => []BootInv
<1>1. BootInv /\ [Next]_vars => BootInv'
  BY ClearScreenStep, BaseTableStep, WindowStep, FillTablesStep, LinkStep, IdentityStep,
     ClaimAllStep, ScanStep, ClaimLowStep, FaultStep, BootStutter DEF Next
<1> QED
  BY <1>1, BootInit, PTL DEF Spec

\* The kernel writes the tables that the CPU walks, and paging_init faults only
\* where it reads a memory map that is not on the page it mapped.
THEOREM TablesAreReachable == Spec => []TablesReachable
<1>1. BootInv => TablesReachable
  BY WindowThere DEF BootInv, TablesReachable, Translated, FaultsOnlyLate
<1> QED
  BY <1>1, BootInvariance, PTL

\* No switch of tables moves the image or the window, or takes away a page that
\* stages 1 and 2 do not.
THEOREM KernelIsStable == Spec => KernelStays
<1> DEFINE Keeps ==
      \A v \in Pages :
        \/ space'[v] = space[v]
        \/ space[v] = None /\ v = info
        \/ pc \in {"base_table", "full_table"} /\ v \notin ImagePages
<1>1. ASSUME BootInv, BootInv', [Next]_vars PROVE Keeps
  <2>1. CASE LoadBaseTable \/ AddWindow
    <3>1. pc \in {"base_table", "full_table"}
      BY <2>1 DEF LoadBaseTable, AddWindow, Run
    <3>2. ASSUME NEW v \in ImagePages PROVE space'[v] = space[v]
      <4>1. v \in Pages /\ space[v] = Index(v)
        BY <1>1, ImageThere DEF ImagePages
      <4>2. new_base_page_table[v] = Index(v) /\ full_kernel_table[v] = Index(v)
        BY <4>1, BasePages, FullPages
      <4> QED
        BY <2>1, <4>1, <4>2 DEF LoadBaseTable, AddWindow
    <3> QED
      BY <3>1, <3>2
  <2>2. CASE LinkTables
    <3>1. space' = space
      BY <1>1, <2>2 DEF LinkTables, Run, BootInv, Translated
    <3> QED
      BY <3>1
  <2>3. CASE identity_map
    <3> HIDE DEF tables_with_info
    <3> QED
      BY <1>1, <2>3, IdentityEffect, InfoTable, InfoPage
  <2>4. CASE UNCHANGED space
    BY <2>4
  <2>5. CASE ClearScreen \/ FillTables \/ ClaimEverything \/ ScanEntry \/ ClaimLow \/ PageFault
             \/ UNCHANGED vars
    BY <2>4, <2>5 DEF ClearScreen, FillTables, ClaimEverything, ScanEntry, ClaimLow, PageFault, vars
  <2> QED
    BY <1>1, <2>1, <2>2, <2>3, <2>5 DEF Next
<1>2. BootInv /\ BootInv' /\ [Next]_vars => [Keeps]_vars
  BY <1>1
<1> QED
  BY <1>2, BootInvariance, PTL DEF Spec, KernelStays

----------------------------------------------------------------------------
\* The bitmap.  An available region that begins and ends at pages below 4 GB
\* releases the frames that lie in it.
LEMMA WholePages ==
  ASSUME NEW e \in MapEntry, e.type = 1, e.addr % PageBytes = 0, e.len % PageBytes = 0,
         e.addr + e.len <= NFrames * PageBytes
  PROVE  \A f \in Frames : f \in Released(e) <=> Available(e, f)
<1> DEFINE P == PageBytes
           steps == (e.len + P - 1) \div P
           cast(physptr) == (physptr % (NFrames * P)) \div P
           first == e.addr \div P
           pages == e.len \div P
<1>1. P \in Nat \ {0} /\ e.addr \in Nat /\ e.len \in Nat /\ NFrames \in Nat
  BY SizesAssumption, Sizes DEF MapEntry
<1>2. first \in Nat /\ pages \in Nat /\ e.addr = first * P /\ e.len = pages * P
  <2>1. e.addr = (e.addr \div P) * P + (e.addr % P) /\ e.addr \div P \in Nat
    BY <1>1, DivDef
  <2>2. e.len = (e.len \div P) * P + (e.len % P) /\ e.len \div P \in Nat
    BY <1>1, DivDef
  <2> QED
    BY <1>1, <2>1, <2>2
<1>3. Released(e) = {cast(e.addr + k * P) : k \in 0 .. steps - 1}
  BY DEF Released
<1> HIDE DEF first, pages
<1>4. steps = pages
  <2>1. e.len + P - 1 = pages * P + (P - 1) /\ P - 1 \in 0 .. P - 1
    BY <1>1, <1>2
  <2> QED
    BY <1>1, <1>2, <2>1, DivMul
<1>5. first + pages <= NFrames
  <2>1. (first + pages) * P = e.addr + e.len
    BY <1>1, <1>2
  <2>2. CASE first + pages > NFrames
    <3>1. (first + pages) * P >= (NFrames + 1) * P
      BY <1>1, <1>2, <2>2, SMT
    <3>2. (NFrames + 1) * P = NFrames * P + P /\ NFrames * P \in Nat
      BY <1>1
    <3> QED
      BY <1>1, <2>1, <3>1, <3>2
  <2> QED
    BY <1>1, <1>2, <2>2
<1>6. \A k \in 0 .. pages - 1 : cast(e.addr + k * P) = first + k
  <2> TAKE k \in 0 .. pages - 1
  <2> DEFINE f == first + k
  <2>1. f \in Nat /\ f < NFrames
    BY <1>1, <1>2, <1>5
  <2>2. e.addr + k * P = f * P
    BY <1>1, <1>2
  <2> HIDE DEF f
  <2>3. NFrames * P \in Nat \ {0} /\ f * P \in 0 .. NFrames * P - 1
    <3>1. (f + 1) * P <= NFrames * P
      BY <1>1, <2>1, SMT
    <3>2. (f + 1) * P = f * P + P /\ f * P \in Nat /\ NFrames * P \in Nat
      BY <1>1, <2>1
    <3> QED
      BY <1>1, <3>1, <3>2
  <2>4. (f * P) % (NFrames * P) = f * P
    <3> DEFINE x == f * P
               m == NFrames * P
    <3>1. m \in Nat \ {0} /\ x \in 0 .. m - 1
      BY <2>3
    <3> HIDE DEF x, m
    <3>2. (0 * m + x) % m = x
      BY <3>1, DivMul
    <3>3. 0 * m + x = x
      BY <3>1
    <3>4. x % m = x
      BY <3>2, <3>3
    <3> QED
      BY <3>4 DEF x, m
  <2>5. (f * P) \div P = f
    <3>1. (f * P + 0) \div P = f
      BY <1>1, <2>1, DivMul
    <3>2. f * P + 0 = f * P
      BY <1>1, <2>1
    <3> QED
      BY <3>1, <3>2
  <2> QED
    BY <2>2, <2>4, <2>5 DEF f
<1> HIDE DEF steps, cast
<1>7. \A f \in Frames : f \in Released(e) <=> f >= first /\ f < first + pages
  <2> TAKE f \in Frames
  <2>1. f \in Nat
    BY Sizes DEF Frames
  <2>2. ASSUME f \in Released(e) PROVE f >= first /\ f < first + pages
    <3>1. PICK k \in 0 .. pages - 1 : f = cast(e.addr + k * P)
      BY <1>3, <1>4, <2>2
    <3> QED
      BY <1>2, <1>6, <3>1
  <2>3. ASSUME f >= first, f < first + pages PROVE f \in Released(e)
    <3>1. f - first \in 0 .. pages - 1 /\ first + (f - first) = f
      BY <1>2, <2>1, <2>3
    <3> QED
      BY <1>3, <1>4, <1>6, <3>1
  <2> QED
    BY <2>2, <2>3
<1>8. \A f \in Frames : Available(e, f) <=> f >= first /\ f < first + pages
  <2> TAKE f \in Frames
  <2>1. f \in Nat
    BY Sizes DEF Frames
  <2>2. Available(e, f) <=> first * P <= f * P /\ (f + 1) * P <= (first + pages) * P
    <3>1. (first + pages) * P = e.addr + e.len
      BY <1>1, <1>2
    <3> QED
      BY <1>2, <3>1 DEF Available
  <2>3. \A a, b \in Nat : a * P <= b * P <=> a <= b
    BY <1>1, SMT
  <2> QED
    BY <1>2, <2>1, <2>2, <2>3
<1> QED
  BY <1>7, <1>8

\* Without Spoilers the scan has looked at the map, all of it and nothing else.
LEMMA LookedIsCounted ==
  ASSUME BootInv, pc = "print", Spoilers = {}
  PROVE  Looked = Counted
<1>1. /\ i \in 0 .. MaxEntries /\ MaxEntries \in Nat \ {0} /\ PassedNoEnd /\ AtEnd
      /\ map \in MemoryMaps
  BY SizesAssumption DEF BootInv, TypeOK, ScanSoFar
<1>2. map.entries \in Seq(MapEntry) /\ map.count \in 1 .. Len(map.entries)
  BY <1>1, MapsAssumption
<1>3. \A n \in 0 .. map.count - 1 : EntryAt(n) = map.entries[n + 1]
  BY <1>2 DEF EntryAt
<1>4. map.count <= MaxEntries /\ \A n \in 2 .. map.count : map.entries[n].addr # 0
  <2>1. ~(map.count > MaxEntries \/ \E n \in 2 .. map.count : map.entries[n].addr = 0)
    <3>1. "cut" \notin Spoilers
      OBVIOUS
    <3> QED
      BY <3>1 DEF Spoilers
  <2> QED
    BY <1>1, <1>2, <2>1
<1>5. map.count < MaxEntries => EntryAt(map.count).addr = 0
  <2>1. "stray" \notin Spoilers
    OBVIOUS
  <2> QED
    BY <2>1 DEF Spoilers
<1>6. i = map.count
  <2>1. map.count \in Nat /\ map.count >= 1 /\ i \in Nat
    BY <1>1, <1>2
  <2>2. CASE i > map.count
    <3>1. map.count \in 1 .. i - 1 /\ map.count < MaxEntries
      BY <1>1, <2>1, <2>2
    <3> QED
      BY <1>1, <1>5, <3>1 DEF PassedNoEnd
  <2>3. CASE i < map.count
    <3>1. i # MaxEntries
      BY <1>1, <1>4, <2>1, <2>3
    <3>2. i > 0 /\ EntryAt(i).addr = 0
      BY <1>1, <3>1 DEF AtEnd
    <3>3. i + 1 \in 2 .. map.count /\ i \in 0 .. map.count - 1
      BY <2>1, <2>3, <3>2
    <3> QED
      BY <1>3, <1>4, <3>2, <3>3
  <2> QED
    BY <2>1, <2>2, <2>3
<1>7. Looked \subseteq Counted
  <2> SUFFICES ASSUME NEW n \in 0 .. i - 1 PROVE EntryAt(n) \in Counted
    BY DEF Looked
  <2>1. n + 1 \in 1 .. map.count /\ EntryAt(n) = map.entries[n + 1]
    BY <1>2, <1>3, <1>6
  <2> QED
    BY <2>1 DEF Counted
<1>8. Counted \subseteq Looked
  <2> SUFFICES ASSUME NEW n \in 1 .. map.count PROVE map.entries[n] \in Looked
    BY DEF Counted
  <2>1. n - 1 \in 0 .. i - 1 /\ (n - 1) + 1 = n
    BY <1>2, <1>6
  <2>2. EntryAt(n - 1) = map.entries[n]
    BY <1>2, <1>3, <1>6, <2>1
  <2> QED
    BY <2>1, <2>2 DEF Looked
<1> QED
  BY <1>7, <1>8

LEMMA BitmapIsMap ==
  ASSUME BootInv, pc = "print", Spoilers = {}
  PROVE  Frames \ pmem_used = GeneralPurpose
<1>1. map \in MemoryMaps /\ pmem_used = (Frames \ ReleasedSoFar) \cup 0 .. FirstFrame - 1
  BY DEF BootInv, ScanSoFar
<1>2. Looked = Counted
  BY LookedIsCounted
<1>3. ASSUME NEW e \in Counted, NEW f \in Frames
      PROVE  f \in Released(e) <=> Available(e, f)
  <2>1. e \in MapEntry
    BY <1>1, MapsAssumption DEF Counted
  <2>2. CASE e.type = 1
    <3>1. e.addr % PageBytes = 0 /\ e.len % PageBytes = 0
      <4>1. "partial" \notin Spoilers
        OBVIOUS
      <4> QED
        BY <2>2, <4>1 DEF Spoilers
    <3>2. ~(e.addr + e.len > NFrames * PageBytes)
      <4>1. "above" \notin Spoilers
        OBVIOUS
      <4> QED
        BY <2>2, <4>1 DEF Spoilers
    <3>3. e.addr + e.len <= NFrames * PageBytes
      <4>1. e.addr + e.len \in Nat /\ NFrames * PageBytes \in Nat
        BY <2>1, Sizes, SizesAssumption DEF MapEntry
      <4> QED
        BY <3>2, <4>1
    <3> QED
      BY <2>1, <2>2, <3>1, <3>3, WholePages
  <2>3. CASE e.type # 1
    BY <2>3 DEF Released, Available
  <2> QED
    BY <2>2, <2>3
<1>4. \A f \in Frames : f \in ReleasedSoFar <=> \E e \in Counted : Available(e, f)
  BY <1>2, <1>3 DEF ReleasedSoFar
<1>5. \A f \in Frames : f \notin 0 .. FirstFrame - 1 <=> f \in FirstFrame .. NFrames - 1
  BY Sizes DEF Frames
<1>6. FirstFrame .. NFrames - 1 \subseteq Frames
  BY Sizes DEF Frames
<1>7. \A f : f \in Frames \ pmem_used <=> f \in GeneralPurpose
  BY <1>1, <1>4, <1>5, <1>6 DEF GeneralPurpose
<1> QED
  BY <1>7

\* What paging_init leaves to the page manager, for every memory map.
THEOREM HandsOverRight == Spec => []HandsOver
<1>1. ASSUME BootInv PROVE HandsOver
  <2> SUFFICES ASSUME pc = "print" PROVE
        /\ 0 .. FirstFrame - 1 \subseteq pmem_used
        /\ \A v \in Pages : kernel_tables[v] # None => kernel_tables[v] \in pmem_used
        /\ kernel_tables[0] = None
        /\ Spoilers = {} => Frames \ pmem_used = GeneralPurpose
    BY DEF HandsOver, Scanned
  <2>1. 0 .. FirstFrame - 1 \subseteq pmem_used
    BY <1>1 DEF BootInv, ScanSoFar
  <2>2. kernel_tables = tables_with_info /\ info \in InfoFrames
    BY <1>1 DEF BootInv, Translated, TypeOK
  <2> HIDE DEF tables_with_info
  <2>3. \A v \in Pages : kernel_tables[v] # None => kernel_tables[v] \in pmem_used
    BY <2>1, <2>2, InfoTable
  <2>4. kernel_tables[0] = None
    <3>1. 0 \in Pages /\ Dir(0) = 0 /\ 0 # info
      BY <2>2, LowPage, InfoPage, Sizes
    <3>2. full_kernel_table[0] = None
      BY <3>1, FullPages, Sizes
    <3> QED
      BY <2>2, <3>1, <3>2, InfoTable
  <2> QED
    BY <1>1, <2>1, <2>3, <2>4, BitmapIsMap
<1> QED
  BY <1>1, BootInvariance, PTL
=============================================================================

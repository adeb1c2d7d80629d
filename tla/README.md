# first-os: models, checks and proofs

first-os is a small 32-bit kernel: a multiboot image that sets up paging,
interrupts, a keyboard and a text screen, scans the PCI bus and then runs a
prompt that echoes lines. This directory holds TLA+ models of it, the TLC
configurations that check them and proofs that TLAPS checks. Paths below are
relative to `src/`.

Contents: [the system](#the-system), [the modules](#the-modules),
[the runs](#the-runs), [fairness](#fairness), [the proofs](#the-proofs),
[what the models found](#what-the-models-found),
[what is left out](#what-is-left-out), [plan](#plan).

## The system

There is one processor, one kernel thread and no user mode. `boot.asm` turns
paging on and calls `kernel_main` (`kernel.c`), which runs the init functions
in a fixed order: `vga_init`, `gdt_init`, `idt_init`, `pit_init`,
`keyboard_init`, `paging_init`, `ahci_init`, `pci_scan`, and at last
`terminal_init`, which never returns. Everything else happens in interrupt
handlers, which the stubs in `idt_s.asm` run with interrupts off.

| component | state | operations | talks to |
|---|---|---|---|
| boot and `paging_init` (`boot.asm`, `memory/memory.c`) | the directory the processor walks, the new tables, the bitmap | three stages that replace the directory, the scan of the memory map | boot loader (its map), page manager (its initial state), screen (unmaps it) |
| page manager (`memory/memory.c`) | `pmem_used`, `kernel_tables` | `alloc_page`, `calloc_page`, `alloc_sequential`, `free_page`, `map_page_to`, `realloc_page`, `mark_user`, `free_all_user_pages` | whoever needs memory: heap, AHCI, address spaces |
| address spaces (`memory/memory.c`) | which tables are in force | `clone_tables`, `clone_user_pages`, `switch_tables`, `use_kernel_map`, `trade_vaddr`, `map_page_secretly`, `map_paddr` | page manager: one bitmap for all spaces |
| interrupts (`idt/`) | gates, `irq_routines`; the two 8259 controllers | stubs, `isr_handler`, `irq_handler` | keyboard and timer routines, screen |
| system calls (`syscalls/`) | none | `syscall_handler`, twelve calls that print | screen |
| keyboard and terminal (`drivers/keyboard/`, `terminal/`) | the ring buffer, `input`, case flags, `terminal_stop_delete` | `keyboard_handler`, `wait_keyboard_input`, the prompt's loop | each other through `input` and the ring; cursor |
| screen (`vga/`) | cells, cursor, colours | `vga_put_char`, `vga_new_line`, `vga_printf`, `vga_set_pos` | everyone prints, with `itoa` for numbers |
| PCI (`pci/`) | `pci_drivers` | `pci_register_driver`, `pci_scan`, `launch_driver`, reads and writes of configuration space | drivers, which register in their init functions |
| disk handlers (`drivers/disk/disk.c`) | `handlers` | register, unregister, `next_disk_handler`, sector calls | disk drivers |
| AHCI (`drivers/disk/ahci/`) | `ports`, command tables; the port's registers | `ahci_read_sectors`, `ahci_write_sectors` | page manager, PCI, disk handlers, the controller |
| timer (`drivers/pit/`) | `ticks`, read by nobody | `on_irq0` | interrupts |
| heap (`std/mem/`) | lists of blocks in pages | `malloc`, `free`, `grow_heap` | page manager |
| GDT (`gdt/`), port access (`util/`), strings (`std/`) | constant tables, none | small functions | everyone |

What is hard here, and where it shows:

* **Interleaving.** The keyboard handler shares the ring, the cursor and the
  case flags with the terminal loop, with no lock but the flag `input`. The
  keyboard's controller, the interrupt controllers and the AHCI controller run
  beside the processor and change registers between any two reads of them.
* **Words on a stack.** Whether a handler reads the right vector, and whether
  the thread is resumed, depends on the stubs pushing and popping exactly what
  the processor and `struct int_regs` have.
* **Tables that describe themselves.** The page tables are edited through a
  window that they themselves map, while `paging_init` replaces the directory
  three times under the running code, and while `clone_tables` copies them.
* **Partial failure.** Frames run out in the middle of `alloc_page`,
  `realloc_page` and `clone_user_pages`; NULL is copied to and cleared like any
  other result; nothing undoes what was done.
* **Lists in the memory they manage.** The heap's headers lie between its blocks,
  or, as the code splits them, inside; a merge leaves pointers behind.
* **State that outlives its owner.** `unmap_vaddr` leaves the user bit;
  a driver's entry in `handlers` goes to the next one who asks; the AHCI
  controller stays stopped after an error while its error bit is cleared.
* **Edges of arithmetic.** `%` of a negative number, 8-bit counters, searches
  past the end of an array, regions beyond 4 GB, page addresses that wrap.

What makes each part correct:

* Boot: the kernel stays mapped through every switch; the window shows the
  tables in force; what comes out free is what the map called available.
* Page manager: a frame is behind one page; what is mapped is claimed, and only
  that; a holder keeps what it was given; what is reserved is never handed out.
* Address spaces: spaces share only what they had in common when one was cloned
  from the other; after a fork no space sees the other's user pages; the bitmap
  counts for both.
* Interrupts: handlers read their frame, the thread is resumed as it was,
  controllers are told the truth, nothing runs after an exception.
* Console: the line that comes back is the line that was typed; every byte of
  the keyboard is acted upon once, and in the end.
* PCI: every function that answers is launched once, by the driver registered,
  and the scan ends; drivers are recorded as they register.
* Disk handlers: an id names its driver as long as it holds it; calls reach it.
* Heap: the list of headers is whole, blocks of different holders lie at
  different places, and `malloc` comes back.
* Screen: video memory shows the lines that were printed, the cursor is behind
  the last of them, nothing else is written.
* Strings: what `itoa` writes means its number, also where it is copied to;
  comparing and copying strings does that.
* AHCI: success means the command was carried out as asked; a slot the
  controller owns is left alone; calls return.

## The modules

Each module's comments name the lines behind its definitions, and `PROJECT.json`
has them all. State variables and actions have the code's names wherever there
is one. Definitions called *slip* are faulty variants of the definition that
follows them; no specification uses them, they are there to show that a
property would notice.

**PageManager** is the state after `paging_init`: `pmem_used` as a set of frames,
`kernel_tables` as a function from pages to entries (present, address, user). One
action is one call, as the kernel calls these functions from its one thread
only. `alloc_page`'s outcome is computed by `AllocOutcomes`: the lowest run of
absent pages, or, when none fits, what reading past the end of the tables may
lead to, as a choice. Contents, the TLB and the write bit are left out. The
ghosts `held` and `lent` are what callers believe, `breach` records the three
ways in which the code takes a holder's page.
**PagePool** is the abstract specification: every frame of the pool has one
owner and changes hands only by being free in between. PageManager implements it with
`owner` read off tables and bitmap (`OwnerOf`).

**FrameScan** is the loop that looks for frames, one iteration per step, with its
skipping of full bytes and its reading past the end of the bitmap.
PageManager uses its result (`LowestFree`), this module shows that the loop computes it.

**AddressSpaces** extends PageManager with the second space: `clone_tables`,
`clone_user_pages` and the switches. `kernel_tables` is always the tables in
force, `other` the tables that are not. `inherited` (a ghost) is what both
spaces still have in common, `misuse` the five things a caller may do to it.
`trade_vaddr` takes a frame out of a space and `map_page_secretly` puts it into
one, in between it is in `traded`; `map_paddr` and `unmap_secret_page` map a
device's frame, without the bitmap, for a while.
`alloc_sequential` is `SequentialRuns`, with room in kernel space as a named
bound. `switch_tables` alone sets a variable; the model has it together with
the load of CR3, as `clone_tables` does both. One clone is made.

**Boot** goes from `boot.asm`'s directory to the first print in `pci_scan`, a
stage per step and an entry of the memory map per step. `space` is what the
processor translates with, `kernel_tables` what the code writes; that they
become the same is a property, not an assumption. Addresses are in units of
which a page has `PageBytes`, and wrap at 4 GB as the code's casts do.

**Interrupts** models gates, stubs, handlers and both controllers. A word on the
stack is the field it was pushed as and, where it matters, its value, so that a
stub which pushes or pops the wrong number of words reads the wrong fields.
`pc` is what runs: the thread at a place of `kernel_main`, or a phase of an
interrupt with its vector. Exceptions come in the thread; inside
`isr_handler` only printing faults, and then the faults nest until the stack is
full and the machine resets. Whether video memory is mapped is tracked
from `paging_init` on.

**Console** has the terminal loop and the keyboard handler as interleaved
processes on one processor, the keyboard with its queue of bytes and its
controller, and the request latch. Of the screen it keeps the cursor, which
`backspace` compares with the prompt's. It takes video memory as mapped, which
Boot shows it is not: it describes the console as it is meant to run, and as it
does on a build where `vga_buffer` is mapped.

**Pci** has the registry, the three nested loops of the scan, one step for each
iteration, with counters that wrap as `uint16_t` and `uint8_t` do, and any
configuration of what answers. **PciConfig** adds the bytes
of configuration space: a byte that is read is the pair of the function and the
offset it was read from, so that a wrong shift or half shows as a wrong pair.

**Heap** has the list of headers at multiples of their size (a split puts the
new header right behind the old one, so that no other place occurs), `malloc`
one turn of its loops per step, `free` with both merges, and callers that clear
their blocks or set a `heap_t` they kept. It begins with what `heap_create` makes
of a page, or of `alloc_page`'s NULL, which it does not test. `breach` records what
tears the list.

**Strings** are the routines of `std/string` and `std/math` as operators on
a memory, loops as recursive functions, with reference definitions of what a
numeral means and which string starts at an address. **StringCalls** has their
callers, who share one memory, and a ghost, `notes`, of the numerals they wrote and have not
written over since. They keep to what `string.h` asks: areas lie in memory, apart
where one is copied to the other.
**Screen** is video memory with a line's worth of memory on either side, the
cursor and the controller's position; **Text** is the abstract specification,
lines of cells without addresses, and Screen implements it with
the mapping `Shown`. An interrupt handler prints only while the thread
waits for it (Console's `ConsoleOwnedOnce`), so that a character is one step.

**Disk** has the table of handlers, calls by drive number, and walks with
`next_disk_handler` that drivers may register and unregister during.

**Ahci** runs call after call against a controller that completes, fails and
stops at any moment, each register access a step. `ahci_read_sectors_internal`
and `ahci_write_sectors_internal` are line for line the same but for a bit and a
command byte, and are one set of actions. A port is filled in or not; nothing in
the built kernel fills one in.

**MC** modules give TLC what a cfg cannot write down. **MCAllocators** (FrameScan
and Heap) and **MCServices** (Disk, Ahci and StringCalls) besides put systems that
share no variable and no code into one run: one of them moves while the others are
in an initial state. Every behaviour of each alone is there, in full, and nothing is
claimed about them together, as there is nothing between them. Only the actions'
guards make it a sum and not a product. **Proofs** modules are below.

How they compose: AddressSpaces extends PageManager and uses its actions;
PageManager implements PagePool; Boot's `HandsOver` is PageManager's
`ReservedAssumption` and `BootMapAssumption`; FrameScan's `LowestFound` is
PageManager's `LowestFree`; PciConfig extends Pci and reads at the scan's
counters; StringCalls extends Strings and calls its routines; Screen implements
Text (the numbers it prints go through a pointer that is never set, so that it has
nothing of `itoa`); Console has Screen's cursor without the cells; Console's handler
is one of the routines that Interrupts dispatches.

## The runs

All runs finish within three minutes on two workers.

| run | instance | what it shows |
|---|---|---|
| `page_manager` | 6 frames (3 reserved, one of them a hole), 5 pages, one mapped at boot, blocks of up to 2 | `FramesExclusive`, `HeldMapped`, `BitmapExact`, `StrandsOnlyWhenFull` through every sequence of calls; `ImplementsPool`: every call is a step of the abstract pool |
| `address_spaces` | 7 frames, 5 pages, a copy of 2 pages, one misuse, one frame traded at a time | what spaces share (`SharedOnlyInherited`), forks (`ForkIsolates`), the bitmap (`SpacesAccounted`), the copy's tables (`CopyReachable`) |
| `boot` | tables of 6 entries, 2536 memory maps of up to 3 entries, info on two frames | `KernelStays`, `TablesReachable` (with the only fault there can be), `HandsOver` (with the free memory as the map promises) |
| `interrupts` | lines 0, 1 and 8, exceptions 0, 2, 14 and 17, a known and an unknown call, 36 words of stack | `HandlersReadTheirFrame` (nor do frames pile up), `ServiceMatches`, `KeyboardHeard`, `ResumesWhereLeft` (and never after an exception), `RequestsTaken` |
| `console` | ring of 3, screen of 2 by 3, 5 presses of a letter, enter, backspace, caps lock, shift, tab and a key nobody handles | `ConsoleOwnedOnce`, `LineFaithful`, `OncePerByte`, `OnlyDeafnessWedges` (and for good), `BytesGetThrough` |
| `pci` | 2 buses, 2 devices, 2 functions, 3 slots, two drivers, every configuration; counters of 3 values, spaces of 16 bytes | `ScanCorrect` (each function is launched once), `HeaderRead` (with its own header), `ScanEnds` |
| `screen` | 2 columns, 3 rows, one letter in two colours | `CursorShown`, `SpillsInFront`, `ShowsText` (Screen implements Text) |
| `allocators`: FrameScan | bitmap of 3 bytes, 2 of them arbitrary, 2 frames wanted | `SearchSound`: what the search returns is free, the lowest there is, and 0 only if there is nothing |
| `allocators`: Heap | pages of 12 words, room for the end to move once, sizes 4, 594, 596 and 606 words, headers at places 0 to 3 | `ListWhole` but for five breaches, `MallocReturns` but for two ways to be caught |
| `services`: Disk | 3 entries, two drivers, drive numbers beyond a byte's ids | `EntriesKept`, `AnswersItsOwner`, `WalkMeetsAll` |
| `services`: Ahci | cap fields of up to 4 slots, counts around the width of the count field, 2 polls | `NothingLeftIssued`, `OwnedSlotsKept`, `SuccessIsHonest`, `ErrorIsFinal`, `CallsReturn` |
| `services`: StringCalls | 6 bytes of memory, words of 4 bits, numbers 0 and 15, bases 1, 2, 10 and 16 | `NumbersStand` (numerals keep their meaning where they are copied to; `strlen`, `strcmp`) |
| `boot_video` | as `boot` | violated: `VideoMapped`, `vga.h`'s word on video memory |
| `pci_registry` | as `pci` | violated: `DriversRecorded`, `pci.h`'s word on registration |
| `pci_byte` | as `pci`, bytes of 2 bits | violated: `ByteReplaced`, `pci.c`'s word on the write of a byte |

The last three end in a violation on purpose: each checks what a comment of the
code says against what the code does, see
[what the models found](#what-the-models-found). Each module's type invariant is
checked too, as the first conjunct of `BitmapExact`, `SearchSound`,
`LineFaithful`, `TablesReachable`, `ScanCorrect`, `HandlersReadTheirFrame`,
`NothingLeftIssued`, `EntriesKept`, `SpacesAccounted`, `ListWhole`,
`NumbersStand` and `CursorShown`.

Why the bounds are enough:

* *Page manager.* Three free frames and blocks of two let every search fail
  half way, the block move, grow in place with and without frames left, and
  wrap round at the top of the tables; a hole in the bitmap and a page mapped at
  boot break the runs of both. The properties are about pairs of pages and
  frames, and are proved for all sizes besides.
* *Address spaces.* Five frames are two for the copy, two for user pages and one
  left over, so that a fork succeeds, fails at once and fails half way.
  `MaxMisuse` stops a behaviour at its first misuse, as TLC comes to no end
  otherwise; that the properties name the right misuses when several come
  together is proved, for any number of them. The copy has pages of its own that
  must be adjacent, hence two.
* *Boot.* Six entries per table are the four the stages use, one below and one
  between. The maps contain every relation of a region to its neighbours the scan
  can tell apart: overlapping the limit of 8 MB, starting or ending inside a
  page, beyond 4 GB, reserved, at address 0, more entries than are looked at.
* *Interrupts.* One line with a routine from early on (0), one whose routine
  comes late (1) and one of the second controller (8); an exception with and
  without an error code, one the stubs do not know of, and an NMI. The stack is
  two frames and a half: faults nest until it is full.
* *Console.* A ring of three wraps, overruns and is filled exactly; a screen of
  two columns and three rows scrolls in a line. Five presses are enough for two
  lines, the second one starting anywhere in the ring, and for a key event at
  every step of the loop and of the handler. One byte waits in the keyboard
  besides the one in the port, enough to arrive between the two reads.
* *PCI, disk, frame scan.* The loops have every boundary of theirs twice; a counter
  wraps one above its limit, closer than the code's do. A header of eight bytes has
  both halves of two dwords. In `pci_byte`, bytes of two bits show a mask that is
  shifted by bits where bytes are meant.
* *Heap.* The sizes are a header's (4), the whole heap less a header (596), two
  words less, so that a block is too tight for a split, and one that only the
  grown heap has room for (606); every branch of `malloc` and `free` is taken,
  `grow_heap` succeeds and fails, and all five breaches happen. After a breach
  only `malloc` is called, until a header would lie past `MaxPlace`.
* *Screen.* Three rows are scrolled in place with one in the middle, two columns
  wrap; the top line, the last and the ends of memory on both sides are met. The
  letter comes in one of two colours, so that blanks, letters and the prompt's
  colour differ.
* *Strings.* Six bytes hold the longest numeral (1111 and its NUL) with a byte beside
  it, or two of the short ones, so that one is copied, written over in part, and copied over
  by a string. 15 is the largest word, in base 16 the last digit there is, in base 2
  divided by the largest power that fits its word; base 1 has no numerals. Bases
  beyond 201, whose digits would not fit in a byte, are left out.
* *AHCI.* `SlotFields` and `Caps` let the masked slot number be zero, wrap and
  be the maximum; the count field's span is crossed; two polls are a wait
  that succeeds at once, later, or never.

## Fairness

* *Console*: weak fairness of the thread, of taking an interrupt and of the
  keyboard's controller presenting its next byte. The processor does not stop;
  nobody has to type.
* *Interrupts*: weak fairness of the code, strong fairness of `Accept`. The
  processor samples its interrupt line after every instruction with interrupts
  on, and kernel code is one step between two interrupts in the model, so that
  a request cannot be missed for ever by bad luck. `RequestsTaken` still makes an
  exception of a flood of requests of higher lines, which the controllers prefer.
* *AHCI*: weak fairness of the driver, and of a controller that runs: it
  completes or fails a command it was given. A device need not become ready.
* *Heap*: weak fairness of `malloc`'s own steps, which are plain code on the only
  processor; nobody has to call it.
* *PCI*: weak fairness of the one thread, which runs the registrations and the scan.
* All other modules: none, only safety is claimed.

Liveness is model-checked only.

## The proofs

Fifty theorems in eight modules, for every value of the constants that
satisfies the assumptions stated with them. They need no facts beyond those
assumptions and the library's. Every safety property of the runs is among them,
and a run checks each on its instance as well.

**MemoryProofs** has three parts.

*The page manager.* Assumptions: sizes are sensible, everything below
`FirstFrame` is reserved, boot maps reserved frames only and not page 0. `FramesExclusive`,
`HeldMapped` and `BitmapExact` (types, `Accounted` and `ReservedKept`) are invariants.
None is inductive alone. `Inv` adds: an absent entry has address 0 (else a later
free would release a frame that somebody owns), and a page that may be freed,
because it is held or has the user bit, maps a frame of the pool or address 0
(else a free would release a reserved frame). The argument is that every
operation consists of mapping fresh frames and unmapping pages: two lemmas say
that each keeps the relation `Sound` between tables and bitmap, and the actions
follow. Frame 0 is the exception to `ReservedKept`: it is really released, by
freeing a page that is not mapped, and only `FirstFrame` keeps it from being
handed out. `StrandsOnlyWhenFull` needs two facts more: page 0 is absent until a
block has wrapped, so that `realloc_page` faults on the NULL it copies to before
it frees the old block (`ZeroAbsent`), and what is lent has the user bit, so that
`free_all_user_pages` unmaps all it takes from holders (`LentMarked`).

*PageManager implements PagePool.* A change of tables and
bitmap that respects owners is a `Transfer`; mapping free frames is one, and a
Transfer followed by an unmapping is one. This rests on `Invariance`, as the
owner is well defined only while frames are exclusive.

*The address spaces*: `SharedOnlyInherited`, `ForkIsolates`, `SpacesAccounted` and
`CopyReachable`. The invariant has five parts, each with the misuses that end it.
`Lasting` never ends: entries have their types, an absent one address 0, and
inherited pages map the same frames in both spaces. `FramesApart`: a frame that is
behind two pages, of one space or of both, is behind an inherited one, and what
is traded is behind none. `AllAccounted`: the bitmap claims what either space maps or
trade has taken out. `SameBits`: an inherited page has one user bit in both
spaces and none after a fork, so that whoever frees his user pages frees nobody
else's. `Untouched`: what is held maps the pool, and the copy's own pages are
nobody's to free. `SpacesAccounted` was first stated with fewer misuses than it needs,
which a bound of one misuse could not show and the proof did.

**AllocatorProofs.** *The search for frames* is correct for every bitmap, size and
number of frames wanted: everything behind the counter has been refuted, and the
counter is at the start of a byte whenever the byte is skipped.

*The heap's list*, `ListWhole`. `List` is what `malloc`'s walk can come to, a recursive
function of the headers. That it exists is shown by its least missing argument;
that it is closed, by counting: every turn adds a place until none is missing, and
there are no more places than turns. A set of places each of which names the next
higher one (`Chain`) is the list, and so the proof needs no walks: a split adds
a place behind another to the chain, a merge takes one out, and `free`
is two merges, each of which keeps `Sound`: the chain ends with `last`, which is free, headers in
use and blocks that are held belong together, and a `prev` names the place in
front, right or not, so that `free` merges with its neighbour or tears the
list and says so (`skipped`). Between the turns of `malloc` its place is on the list (`Walking`), torn or not.
`MallocAdvances` follows: each turn on a whole list goes further back on a chain that
ends with `last`, or takes a page of those `grow_heap` still allows. This is the
measure that `MallocReturns` rests on, and is proved only; that the turns are taken is
left to TLC.

**BootProofs**: `TablesReachable`, `KernelStays` and `HandsOver`, for all sizes of
tables that hold the kernel, every memory map and wherever the loader leaves it. The
invariant says at each place of `paging_init` which directory the processor
translates with (`Translated`), that nothing faults before the scan
(`FaultsOnlyLate`), and that in the scan the bitmap is free exactly where the
entries looked at so far say so, none of which was the end (`ScanSoFar`).

**ConsoleProofs.** `ConsoleOwnedOnce` rests on `InputProtects`: `input` is
raised just before the spin and lowered only by the handler, and the handler past
its test runs with `input` raised. `OncePerByte` rests on `BytesPairUp`: requests and bytes
correspond one to one until a byte falls between the two reads.
`OnlyDeafnessWedges` rests on the same `InputProtects`: only the handler drops a
request, and the two places where it does are the test of `input` and the read
of the port. `LineFaithful` rests on where the line is: from `head` on in the
ring, around its end, with `tail` behind it, and the cursor as many places behind
the prompt's mark as the line has letters, counted in lines that may have
scrolled (`CursorBehindLine`); so that a backspace takes a letter from the screen exactly
when it takes one from the ring. That needs of the keys that none is a
letter and the empty byte at once.

**PciProofs.** The scan launches what it can reach exactly once. The invariant says
which functions lie behind the three counters, none of which wraps, as each is tested
against a limit below its width. `HeaderRead`: the address the code makes of bus, device,
function and offset is a number with these as digits, so that it names them and no
others, for every size of a function's space.

**InterruptsProofs.** Assumptions: lines are 0 to 15 and exceptions 0 to 31; of
vectors 8 to 14 the processor pushes an error code for all but 9.
`HandlersReadTheirFrame`, `ServiceMatches`, `KeyboardHeard` and
`ResumesWhereLeft`. The invariant follows a frame from the processor's words
(`ProcessorFrame`) to the handler's (`HandlerFrame`) with the thread's place and
flag in it, wherever on the stack it begins (`Frames`); nothing nests but
exceptions, for a gate or a stub closes the flag and only the thread has it open
(`Types`, `Gates`); in service is what the handler has still to end (`InService`);
and a byte whose interrupt has been handled was taken, or came to nobody
(`Announced`).

**ScreenProofs.** Screen implements Text, `ShowsText`, for screens of every size, with
`CursorShown` and `SpillsInFront`. A lemma for each routine says which record it makes of
buffer, row and column, how its lines look and what it spills. The scroll copies
row by row in place; that this is the shift of all rows at once is shown by the
least row that would differ (`ScrolledUp`). The invariant adds to `CursorShown` that the cursor is
left of the first column only in the first row (`LeftAtHome`), which is where a
backspace at home takes it: on any other row it would be on the line above. A
lemma about rows and columns says that an index names one cell.

*The callers of Strings*, `NumbersStand`, for every word size, memory, number and base.
The invariant is that each numeral noted is in memory, whole (`Stands`): an area
that is written keeps those outside of it, and a copy takes along those inside. What
it then means, and that `strlen` and `strcmp` read it right, are lemmas about the
routines, in every memory. Each routine is a recursive function, which TLA+ defines by a
CHOOSE; so the first thing to show is that there is one: `Recursion` says so of every
function whose values are made of the value at an argument of less measure, and
`Turns` of loops. What it computes is then shown by the least, or last, place where
it would be something else.

* `pow` is the power while the power is below 2^32, and `get_digits` counts k
  digits of a number between the powers k - 1 and k of the base. So the first divisor of
  `itoa` is at most the number, no divisor overflows, and the first digit is not 0.
* `itoa`: after every turn, what the digits written mean, times the power last divided by,
  plus what is left is the number (`PositiveRight`).
* `strlen` counts up to the first NUL, which every memory has; `strcmp` stops at the first
  difference or at the end of the first string. The two have that in common only
  if they are the same string.
* `memcpy`: after i turns the first i bytes are there, and the next is still unwritten if
  the areas are apart or the copy goes down.
* `strcpy` writes at one address, and nothing when it returns NULL: so it spoils no
  numeral but one its caller gave up. It does not run past the end of its source. It
  could only by writing there, which is to write at the end of a destination that is empty; then so is
  the source. That it copies is not proved, for it does not.

**DriverProofs.** *The disk handlers.* Assumptions: at least one entry and one drive per handler.
`EntriesKept`, `WalkMeetsAll` and `AnswersItsOwner`, from an invariant that makes
owners and entries agree in both directions (`Registry`) and says what a walk under
way has met: every handler that stayed, up to where it stands (`WalkedSoFar`).
`Lowest` is a CHOOSE, so its least element has to be shown to exist: among the
finite sets `0 .. i` one is minimal under inclusion.

*AHCI.* `NothingLeftIssued`, `OwnedSlotsKept`, `SuccessIsHonest` and
`ErrorIsFinal`, from an invariant in four parts: the slot chosen is free until it
is issued (`Chosen`), its table holds the request (`Filled`), what was carried
out in this call is that command (`Progress`), and with the controller stopped a
call that gets as far as waiting has nothing to wait for (`StoppedCalls`).

Only model-checked is liveness, that is `BytesGetThrough`, `RequestsTaken`, `CallsReturn`,
`ScanEnds` and `MallocReturns`: fairness and ENABLED are outside what the prover handles. The
library's induction theorems take an operator as a parameter, which no backend
here can instantiate: inductions over data (the search of a least number, the
list, the scroll, numerals and strings) are each done by a least counterexample.

## What the models found

Three runs check what a comment of the code promises, and TLC refutes it:

* `boot_video`: stage 1 of `paging_init` unmaps the page `vga_buffer` points to;
  the first print afterwards faults, and the handler of the fault prints.
* `pci_registry`: the first driver registered takes every slot, as the loop goes on
  after it found an unused one; the second is not recorded (`pci.c:157`), though
  `pci.h:41` says each is, and `pci.c:154` that the search ends at an unused one.
* `pci_byte`: the mask of a byte's write is shifted by bits instead of bytes. Anywhere
  but at the start of a dword the old byte is not cleared, as `pci.c:291` says, but
  or-ed, and neighbours lose bits (`pci.c:294`).

Two models state what the code does where that is not what it is for, and no run checks
a promise against them. `strcpy` writes the first byte of its destination again
and again, and no NUL (`strcpy.c:8-10`), though `string.h:18` says that it copies: no property
here says that it does, only that it spoils nobody else's numerals. And shift never
selects the upper-case table, since the code compares where it should assign
(`keyboard.c:153`; `NoEffect` of Console, in `LineFaithful`).

Other properties hold only with an exception named in them,
which is a defect of the code in itself: pages lost by holders (`Breaches` of
PageManager), keyboards that go deaf (`Wedged` of Console) or a tab that never
ends (`hung`), lines that overrun the ring, of which the one that fills it
exactly has size 0 (`Spoilers` of Console, `keyboard.c:191`), memory maps with
regions beyond 4 GB, which wrap to frames they do not own, or that end inside a
page, which is freed whole (`Spoilers` of Boot, `memory.c:145-146`), a port that never recovers from an error (`Hung` of Ahci), keys
pressed while no program waits for input (`unheard` of Interrupts), handler 0, which no
walk meets (Disk), inherited pages (`Misuses` of AddressSpaces), the line in front
of video memory, which scrolling and backspaces at home write
(`SpillsInFront`), a tab, which blanks all from the cursor to the end of what is
mapped, `%d` and `%x`, which write through a pointer that is never set
(`lost` of Screen, `vga.c:164`), and the heap: its headers lie inside the blocks
handed out, so that whoever clears his block clears them; a block's size is
counted to both halves of a split, so that a later split writes over a live
header; `free` does not update `prev`; a `heap_t` set back names an old last block;
`heap_create` writes to the page it did not get (`Breaches` of Heap); and a free block that is too small and not the last stops
`malloc` in an endless loop (`Wedged`, `mem.c:110`). Nobody would see this from the
built kernel, which creates no heap.

## What is left out

* *Not modelled*: `heap_free` (a call of `free_page`); `mark_write`, `free_pages`
  and `get_phys_addr` (no built caller); the GDT (constant); names of PCI
  classes (text); port access (one instruction each).
* *Never built*: `old_memory/`, `old_kmalloc/`, `drivers/disk/ata/`.
* *External and modelled from its use*: the boot loader's memory map, the 8042
  and 8259 controllers, the processor's delivery of interrupts, the AHCI
  controller, the host bridge, which shows a function's bytes and a class. A device
that decodes no function number answers alike for all eight and is launched eight
times (`pci.c:196`): it is one of the configurations of `pci`, not told apart.
* *Abstracted*: page contents, the TLB, sectors' contents; the length of an AHCI
  transfer, which the code computes and drops (`ahci.c:71`); the counter of ticks.
* *Assumed*: calls of the page manager come from the thread alone (no handler of
  the built kernel allocates); kernel space has room for a copy of the tables;
  the last frame of the address space is never general-purpose memory.

## Plan

1. Done: page manager, boot, console, PCI, interrupts, disk, AHCI, address spaces,
   heap, screen, strings and numbers, each with its safety properties proved.
2. What AHCI's table of ports holds when nobody fills it (`ahci.c:191`): the memory
   `alloc_page` leaves, which the models of pages have no contents for.
3. Measures for the other calls that must end, as `MallocAdvances` is one for `malloc`.

-------------------------------- MODULE Ahci --------------------------------
(***************************************************************************)
(* The AHCI driver of src/drivers/disk/ahci/ahci.c: one port, calls of     *)
(* ahci_read_sectors and ahci_write_sectors one after the other, and the   *)
(* controller running beside the code.                                     *)
(*                                                                         *)
(* The two functions differ in the w bit and the command byte alone and    *)
(* are one set of actions here.  Nothing in the built kernel fills in a    *)
(* port: the model takes one as the type ahci_port describes it, or one    *)
(* whose abar is 0.  Sectors' contents are left out; what is kept is which *)
(* sectors a command names and how many of them move.  A spin of a million *)
(* reads is one of MaxSpin.                                                *)
(***************************************************************************)
EXTENDS Integers

CONSTANTS
  SlotFields,  \* the values of cap's four-bit field the code reads: 16
  Caps,        \* the numbers of command slots, minus one, a controller has
  FirstSectors,\* the sectors a caller asks for first, below SectorSpan
  SectorSpan,  \* what six LBA bytes hold: 2^48
  Counts,      \* the numbers of sectors a caller asks for
  CountSpan,   \* what the command's two count bytes hold: 65536
  Lengths,     \* the sectors a slot's memory descriptor may have room for
  MaxSpin      \* bound: reads of tfd before the driver gives up, a million

ASSUME AhciAssumption ==
  /\ SlotFields \in Nat \ {0} /\ Caps \subseteq Nat
  /\ SectorSpan \in Nat \ {0} /\ FirstSectors \subseteq 0 .. SectorSpan - 1
  /\ CountSpan \in Nat \ {0} /\ Counts \subseteq Nat
  /\ Lengths \subseteq Nat /\ MaxSpin \in Nat

Slots == 0 .. SlotFields - 1   \* those the driver may choose
Blank(n) == [write |-> FALSE, first |-> 0, count |-> 0, length |-> n]
NoSlot == -1                   \* 0xFFFFFFFF

VARIABLES
  \* The port, the driver's side.
  abar,      \* the port is filled in
  cap,       \* the controller's command slots, minus one
  tables,    \* slot |-> the command in its header and table
  \* The port, registers.
  ci,        \* slots issued and not completed
  error,     \* bit 30 of is
  busy,      \* BUSY or DRQ of tfd
  running,   \* the controller processes the command list
  \* The call.
  pc, request, slot, spin, result,
  \* Ghost: the commands the controller carried out during this call.
  done

port == <<ci, error, busy, running>>
call == <<pc, request, slot, spin, result>>
vars == <<abar, cap, tables, port, call, done>>

Requests == [write : BOOLEAN, first : FirstSectors, count : Counts]
Commands == [write : BOOLEAN, first : Nat, count : 0 .. CountSpan - 1,
             length : Lengths \cup {0}]

\* aport.abar->cap & 0x0F00: NCS is five bits and counts from 0.
cmd_slots == cap % SlotFields

\* What the command's bytes keep of the request.
FIS(r, old) ==
  [write |-> r.write, first |-> r.first % SectorSpan,
   count |-> r.count % CountSpan, length |-> old.length]

\* A count of 0 stands for CountSpan sectors (ATA).
SectorsOf(c) == IF c.count = 0 THEN CountSpan ELSE c.count

Init ==
  /\ abar \in BOOLEAN /\ cap \in Caps
  /\ tables \in {[s \in Slots |-> Blank(n)] : n \in Lengths}
  /\ ci = {} /\ error \in BOOLEAN /\ busy \in BOOLEAN /\ running = TRUE
  /\ pc = "idle" /\ request = [write |-> FALSE, first |-> 0, count |-> 0]
  /\ slot = NoSlot /\ spin = 0 /\ result = 0
  /\ done = {}

Finish(r) == pc' = "idle" /\ result' = r /\ UNCHANGED <<request, slot, spin>>

----------------------------------------------------------------------------
\* The driver.

\* A caller's request; ports whose abar is 0 are refused.
ahci_read_write(r) ==
  /\ pc = "idle"
  /\ request' = r /\ done' = {}
  /\ IF abar THEN pc' = "clear" /\ UNCHANGED result
             ELSE pc' = "idle" /\ result' = 4
  /\ UNCHANGED <<slot, spin, abar, cap, tables, port>>

\* port->is = 0xFFFFFFFF: a one written clears a bit.
ClearStatus ==
  /\ pc = "clear"
  /\ error' = FALSE
  /\ pc' = "find"
  /\ UNCHANGED <<request, slot, spin, result, abar, cap, tables, ci, busy, running, done>>

FreeSlots == {s \in 0 .. cmd_slots - 1 : s \notin ci}

\* Slip: slots that are issued count as free.
find_cmd_slot_First ==
  /\ pc = "find"
  /\ IF cmd_slots = 0 THEN Finish(1)
     ELSE slot' = 0 /\ pc' = "fill" /\ UNCHANGED <<request, spin, result>>
  /\ UNCHANGED <<abar, cap, tables, port, done>>

find_cmd_slot ==
  /\ pc = "find"
  /\ IF FreeSlots = {}
     THEN Finish(1)
     ELSE /\ \E s \in FreeSlots : slot' = s /\ \A t \in FreeSlots : s <= t
          /\ pc' = "fill" /\ UNCHANGED <<request, spin, result>>
  /\ UNCHANGED <<abar, cap, tables, port, done>>

\* Header, table and command FIS.  The descriptor's length stays as it is:
\* the line that should set dbc has no effect, and prdtl is not set at all.
FillCommand ==
  /\ pc = "fill"
  /\ tables' = [tables EXCEPT ![slot] = FIS(request, tables[slot])]
  /\ spin' = 0 /\ pc' = "ready"
  /\ UNCHANGED <<request, slot, result, abar, cap, port, done>>

\* One read of tfd in the loop.
AwaitReady ==
  /\ pc = "ready"
  /\ IF busy /\ spin < MaxSpin
     THEN spin' = spin + 1 /\ UNCHANGED pc
     ELSE pc' = "check" /\ UNCHANGED spin
  /\ UNCHANGED <<request, slot, result, abar, cap, tables, port, done>>

\* One more read after it.
CheckReady ==
  /\ pc = "check"
  /\ IF busy THEN Finish(2) ELSE pc' = "issue" /\ UNCHANGED <<request, slot, spin, result>>
  /\ UNCHANGED <<abar, cap, tables, port, done>>

\* port->ci = 1 << slot: a one written sets the bit, a zero leaves it.
Issue ==
  /\ pc = "issue"
  /\ ci' = ci \cup {slot}
  /\ pc' = "wait_ci"
  /\ UNCHANGED <<request, slot, spin, result, abar, cap, tables, error, busy, running, done>>

Step(next) == pc' = next /\ UNCHANGED <<request, slot, spin, result>>

\* Slip: the loop does not look at the error bit.
PollCi_Only ==
  /\ pc = "wait_ci"
  /\ Step(IF slot \notin ci THEN "verdict" ELSE "wait_ci")
  /\ UNCHANGED <<abar, cap, tables, port, done>>

\* Slip: one look at ci, then the call gives up.
PollCi_Once ==
  /\ pc = "wait_ci"
  /\ IF slot \notin ci THEN Step("verdict") ELSE Finish(3)
  /\ UNCHANGED <<abar, cap, tables, port, done>>

PollCi ==
  /\ pc = "wait_ci"
  /\ Step(IF slot \notin ci THEN "verdict" ELSE "wait_is")
  /\ UNCHANGED <<abar, cap, tables, port, done>>

\* Slip: the error ends the loop and counts as success.
PollError_Breaks ==
  /\ pc = "wait_is"
  /\ IF error THEN Finish(0) ELSE Step("wait_ci")
  /\ UNCHANGED <<abar, cap, tables, port, done>>

PollError ==
  /\ pc = "wait_is"
  /\ IF error THEN Finish(3) ELSE Step("wait_ci")
  /\ UNCHANGED <<abar, cap, tables, port, done>>

\* Slip: no look at the error bit after the loop.
Verdict_Optimistic ==
  /\ pc = "verdict"
  /\ Finish(0)
  /\ UNCHANGED <<abar, cap, tables, port, done>>

Verdict ==
  /\ pc = "verdict"
  /\ Finish(IF error THEN 3 ELSE 0)
  /\ UNCHANGED <<abar, cap, tables, port, done>>

Driver ==
  \/ ClearStatus \/ find_cmd_slot \/ FillCommand \/ AwaitReady \/ CheckReady
  \/ Issue \/ PollCi \/ PollError \/ Verdict

----------------------------------------------------------------------------
\* The controller and the device (external).

\* A command is carried out: the sectors move, its bit of ci is cleared.
Complete(s) ==
  /\ running /\ s \in ci
  /\ ci' = ci \ {s}
  /\ done' = done \cup {[slot |-> s, command |-> tables[s]]}
  /\ UNCHANGED <<abar, cap, tables, error, busy, running, call>>

\* A command fails: bit 30 is set and the list stops until somebody restarts
\* it.  The bit of ci stays, though some controllers clear it.
Fail(s) ==
  /\ running /\ s \in ci
  /\ error' = TRUE /\ running' = FALSE
  /\ ci' \in {ci, ci \ {s}}
  /\ UNCHANGED <<abar, cap, tables, busy, call, done>>

\* The device is busy with itself, or ready again.
Toggle ==
  /\ busy' = ~busy
  /\ UNCHANGED <<abar, cap, tables, ci, error, running, call, done>>

Controller == \E s \in Slots : Complete(s) \/ Fail(s)

Next ==
  \/ \E r \in Requests : ahci_read_write(r)
  \/ Driver
  \/ Controller
  \/ Toggle

Spec == Init /\ [][Next]_vars

\* The code runs on, and a controller that runs answers.
FairSpec == Spec /\ WF_vars(Driver) /\ WF_vars(Controller)

----------------------------------------------------------------------------
\* Properties.

TypeOK ==
  /\ abar \in BOOLEAN /\ cap \in Caps
  /\ tables \in [Slots -> Commands]
  /\ ci \subseteq Slots
  /\ error \in BOOLEAN /\ busy \in BOOLEAN /\ running \in BOOLEAN
  /\ pc \in {"idle", "clear", "find", "fill", "ready", "check", "issue",
             "wait_ci", "wait_is", "verdict"}
  /\ request \in Requests \cup {[write |-> FALSE, first |-> 0, count |-> 0]}
  /\ slot \in Slots \cup {NoSlot}
  /\ spin \in 0 .. MaxSpin
  /\ result \in 0 .. 4
  /\ done \subseteq [slot : Slots, command : Commands]

\* The driver leaves the header and table of a slot alone while the controller
\* owns it, after failed calls that left their bits in ci as well
\* (ahci.c:17-29, 62-90).
OwnedSlotsKept ==
  [][\A s \in ci : tables'[s] = tables[s]]_vars

\* As long as the controller runs no call leaves a command behind: when the
\* next one looks for a slot, all are free (ahci.c:97-99, 101-110).
NothingLeftIssued ==
  /\ TypeOK
  /\ running /\ pc \notin {"wait_ci", "wait_is"} => ci = {}

\* A call reports success only if the controller carried out one command in
\* it: the caller's sectors, 65536 of them included, in the caller's direction
\* (ahci.c:78-90, 101-115).  How many of them moved depends on a length the
\* driver never sets.
Honest ==
  \E d \in done :
    /\ done = {d}
    /\ d.slot = slot
    /\ d.command.write = request.write
    /\ d.command.first = request.first
    /\ request.count \in 1 .. CountSpan => SectorsOf(d.command) = request.count
SuccessIsHonest ==
  [][pc # "idle" /\ pc' = "idle" /\ result' = 0 => Honest]_vars

\* Nothing restarts the list after an error: no later call succeeds, and one
\* that gets as far as waiting waits for ever, since it has cleared the error
\* bit it waits for (ahci.c:55, 103-110).
Hung == pc \in {"wait_ci", "wait_is"} /\ ~running /\ ~error /\ slot \in ci
ErrorIsFinal ==
  [][/\ ~running /\ pc # "idle" /\ pc' = "idle" => result' # 0
     /\ Hung => Hung']_vars

\* Every call returns, unless an earlier one stopped the controller
\* (ahci.c:92-110).
CallsReturn == pc # "idle" ~> pc = "idle" \/ Hung
=============================================================================

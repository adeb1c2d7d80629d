---------------------------- MODULE DriverProofs ----------------------------
(***************************************************************************)
(* Proofs about the two layers of the disk drivers: Disk, the table of     *)
(* handlers, for every number of entries, drives and drivers, and Ahci,    *)
(* the driver below, for every controller, request and bound.              *)
(***************************************************************************)
EXTENDS Disk, Ahci, FiniteSetTheorems, WellFoundedInduction, TLAPS

\* A nonempty set of handlers' ids has a lowest one.  The sets 0 .. i, for the
\* ids i of the set, are finite, and strict inclusion among finite sets is well
\* founded: one of them is minimal.
LEMMA LowestOne ==
  ASSUME NEW S \in SUBSET Ids, S # {}
  PROVE  /\ Lowest(S) \in S
         /\ \A j \in S : Lowest(S) <= j
<1> DEFINE T == {0 .. i : i \in S}
           R == StrictSubsetOrdering(Ids)
<1>1. IsFiniteSet(Ids)
  BY DiskAssumption, FS_Interval DEF Ids
<1>2. IsWellFoundedOn(R, SUBSET Ids)
  BY <1>1, FS_FiniteSubsetsOfFinite, FS_StrictSubsetOrderingWellFounded, Zenon
<1>3. T \subseteq SUBSET Ids /\ T # {}
  <2> SUFFICES ASSUME NEW i \in S PROVE 0 .. i \subseteq Ids
    OBVIOUS
  <2> QED BY DiskAssumption DEF Ids
<1>4. PICK t \in T : \A u \in T : <<u, t>> \notin R
  <2> HIDE DEF T, R
  <2> QED BY <1>2, <1>3, WFMin
<1>5. PICK i \in S : t = 0 .. i
  OBVIOUS
<1>6. \A j \in S : i <= j
  <2> SUFFICES ASSUME NEW j \in S, ~ (i <= j) PROVE FALSE
    OBVIOUS
  <2>1. j \in Nat /\ i \in Nat /\ j < i
    BY DiskAssumption DEF Ids
  <2>2. 0 .. j \subseteq 0 .. i /\ i \in 0 .. i /\ i \notin 0 .. j
    BY <2>1
  <2>3. 0 .. j \in T /\ 0 .. j \in SUBSET Ids /\ 0 .. i \in SUBSET Ids
    <3>1. 0 .. j \in T /\ 0 .. i \in T
      OBVIOUS
    <3> HIDE DEF T
    <3> QED BY <1>3, <3>1
  <2>4. <<0 .. j, 0 .. i>> \in R
    BY <2>2, <2>3 DEF StrictSubsetOrdering
  <2> QED BY <1>4, <1>5, <2>3, <2>4
<1> QED BY <1>6 DEF Lowest

----------------------------------------------------------------------------
\* The inductive invariant.

\* What drivers believe they own and what the table says agree.
Registry == \A d \in Drivers, i \in Ids : i \in owns[d] <=> handlers[i] = d

\* What stayed is used, and the walk met as much of it as it has passed.
WalkedSoFar ==
  /\ stayed \subseteq Used
  /\ \A i \in stayed \ {0} : walk = NHandlers \/ i <= walk => i \in visited

DiskInv == DiskTypeOK /\ Registry /\ WalkedSoFar

LEMMA DiskInitInv == DiskInit => DiskInv
BY DiskAssumption DEF DiskInit, DiskInv, DiskTypeOK, Registry, WalkedSoFar, Used, Ids,
   DriveNumbers, IdSpan

LEMMA RegisterKeeps ==
  ASSUME DiskInv, NEW d \in Drivers, register_disk_handler(d)
  PROVE  DiskInv'
<1> USE DEF DiskInv, DiskTypeOK, Registry, WalkedSoFar, register_disk_handler, walking
<1>1. CASE Used = Ids
  BY <1>1 DEF Used
<1>2. CASE Used # Ids
  <2> DEFINE i == Lowest(Ids \ Used)
  <2>1. i \in Ids /\ handlers[i] = NoDriver
    <3>1. Ids \ Used \in SUBSET Ids /\ Ids \ Used # {}
      BY <1>2 DEF Used
    <3>2. i \in Ids \ Used
      BY <3>1, LowestOne
    <3> QED BY <3>2 DEF Used
  <2>2. /\ handlers' = [handlers EXCEPT ![i] = d]
        /\ owns' = [owns EXCEPT ![d] = @ \cup {i}]
        /\ UNCHANGED <<answered, walk, stayed, visited>>
    BY <1>2 DEF Place
  <2> HIDE DEF i
  <2>3. DiskTypeOK'
    BY <2>1, <2>2
  <2>4. Registry'
    BY <2>1, <2>2, DiskAssumption
  <2>5. WalkedSoFar'
    BY <2>1, <2>2, DiskAssumption DEF Used
  <2> QED BY <2>3, <2>4, <2>5
<1> QED BY <1>1, <1>2

LEMMA UnregisterKeeps ==
  ASSUME DiskInv, NEW d \in Drivers, NEW id \in Ids \cup {NHandlers},
         unregister_disk_handler(d, id)
  PROVE  DiskInv'
<1> USE DEF DiskInv, DiskTypeOK, Registry, WalkedSoFar, unregister_disk_handler
<1>1. DiskTypeOK'
  OBVIOUS
<1>2. Registry'
  <2> SUFFICES ASSUME NEW e \in Drivers, NEW i \in Ids
               PROVE  i \in owns'[e] <=> handlers'[i] = e
    OBVIOUS
  <2>1. CASE i = id
    <3>1. id \in owns[d] /\ handlers[i] = d
      BY <2>1, DiskAssumption DEF Ids
    <3>2. handlers'[i] = NoDriver /\ i \notin owns'[e]
      BY <2>1, <3>1
    <3> QED BY <3>2, DiskAssumption
  <2>2. CASE i # id
    BY <2>2
  <2> QED BY <2>1, <2>2
<1>3. WalkedSoFar'
  BY DEF Used
<1> QED BY <1>1, <1>2, <1>3

LEMMA DiskNextInv == DiskInv /\ [DiskNext]_diskVars => DiskInv'
<1> SUFFICES ASSUME DiskInv, [DiskNext]_diskVars PROVE DiskInv'
  OBVIOUS
<1>1. ASSUME NEW d \in Drivers, register_disk_handler(d) PROVE DiskInv'
  BY <1>1, RegisterKeeps
<1>2. ASSUME NEW d \in Drivers, NEW id \in Ids \cup {NHandlers},
             unregister_disk_handler(d, id)
      PROVE  DiskInv'
  BY <1>2, UnregisterKeeps
<1>3. ASSUME NEW number \in DriveNumbers, disk_sectors(number) PROVE DiskInv'
  <2>1. answered' \in [driver : Drivers \cup {NoDriver}, drive : 0 .. NDrives - 1,
                       number : DriveNumbers]
    <3>1. DriveOf(number) \in 0 .. NDrives - 1 /\ 0 \in 0 .. NDrives - 1
      BY DiskAssumption DEF DriveOf, DriveNumbers, IdSpan
    <3>2. ~ Refused(IdOf(number)) => handlers[IdOf(number)] \in Drivers
      BY <1>3 DEF Refused, Used, DiskInv, DiskTypeOK
    <3> QED BY <1>3, <3>1, <3>2 DEF disk_sectors
  <2>2. UNCHANGED <<handlers, owns, walk, stayed, visited>>
    BY <1>3 DEF disk_sectors, walking
  <2> QED BY <2>1, <2>2 DEF DiskInv, DiskTypeOK, Registry, WalkedSoFar, Used
<1>4. CASE StartWalk
  BY <1>4, DiskAssumption
     DEF StartWalk, DiskInv, DiskTypeOK, Registry, WalkedSoFar, Used, Ids
<1>5. CASE next_disk_handler
  <2>1. UNCHANGED <<handlers, answered, owns, stayed>> /\ walk \in Ids
    BY <1>5 DEF next_disk_handler, DiskInv, DiskTypeOK
  <2>2. CASE After(walk) = {}
    <3>1. walk' = NHandlers /\ visited' = visited \cup {NHandlers}
      BY <1>5, <2>2 DEF next_disk_handler
    <3>2. \A i \in stayed : i <= walk
      BY <2>1, <2>2, DiskAssumption DEF After, DiskInv, WalkedSoFar, Used, Ids
    <3> QED BY <2>1, <3>1, <3>2 DEF DiskInv, DiskTypeOK, Registry, WalkedSoFar, Used
  <2>3. CASE After(walk) # {}
    <3> DEFINE n == Lowest(After(walk))
    <3>1. n \in After(walk) /\ \A j \in After(walk) : n <= j
      <4>1. After(walk) \in SUBSET Ids
        BY DEF After, Used
      <4> QED BY <4>1, <2>3, LowestOne
    <3>2. walk' = n /\ visited' = visited \cup {n} /\ n \in Ids
      BY <1>5, <2>3, <3>1 DEF next_disk_handler, After, Used
    <3> HIDE DEF n
    <3>3. DiskTypeOK' /\ Registry'
      BY <2>1, <3>2 DEF DiskInv, DiskTypeOK, Registry
    <3>4. WalkedSoFar'
      <4> SUFFICES ASSUME NEW i \in stayed \ {0}, i <= n PROVE i \in visited'
        BY <2>1, <3>2, DiskAssumption DEF DiskInv, WalkedSoFar, Used, Ids
      <4>1. i \in Used /\ i \in Int /\ walk \in Int /\ n \in Int
        BY <2>1, <3>2, DiskAssumption DEF DiskInv, WalkedSoFar, Used, Ids
      <4>2. CASE i <= walk
        BY <3>2, <4>2 DEF DiskInv, WalkedSoFar
      <4>3. CASE ~ (i <= walk)
        <5>1. n <= i
          BY <3>1, <4>1, <4>3 DEF After
        <5> QED BY <3>2, <4>1, <5>1
      <4> QED BY <4>2, <4>3
    <3> QED BY <3>3, <3>4 DEF DiskInv
  <2> QED BY <2>2, <2>3
<1>6. CASE UNCHANGED diskVars
  BY <1>6 DEF diskVars, DiskInv, DiskTypeOK, Registry, WalkedSoFar, Used
<1> QED BY <1>1, <1>2, <1>3, <1>4, <1>5, <1>6 DEF DiskNext

THEOREM DiskInvariance == DiskSpec => []DiskInv
BY DiskInitInv, DiskNextInv, PTL DEF DiskSpec

----------------------------------------------------------------------------
\* The theorems.

\* A driver's entry is its own from registration to unregistration
\* (disk.c:12-34).
THEOREM EntriesStay == DiskSpec => []EntriesKept
<1>1. DiskInv => EntriesKept
  BY DEF DiskInv, DiskTypeOK, Registry, EntriesKept, Used
<1> QED BY <1>1, DiskInvariance, PTL

\* A walk meets every handler that stayed, but for handler 0 (disk.c:40-47).
THEOREM WalkIsComplete == DiskSpec => []WalkMeetsAll
<1>1. DiskInv => WalkMeetsAll
  BY DEF DiskInv, WalkedSoFar, WalkMeetsAll
<1> QED BY <1>1, DiskInvariance, PTL

\* Below 2^24 the upper half of a drive number is a handler's id as it is.
LEMMA UpperHalf ==
  ASSUME NEW number \in DriveNumbers, number < IdSpan * NDrives
  PROVE  /\ number \div NDrives \in 0 .. IdSpan - 1
         /\ IdOf(number) = number \div NDrives
<1> DEFINE q == number \div NDrives
<1>1. number \in Nat /\ NDrives \in Nat \ {0} /\ IdSpan \in Nat \ {0}
  BY DiskAssumption DEF DriveNumbers, IdSpan
<1>2. q \in Nat /\ NDrives * q <= number
  BY <1>1
<1>3. q < IdSpan
  <2> HIDE DEF q
  <2> SUFFICES ASSUME IdSpan <= q PROVE FALSE
    BY <1>1, <1>2
  <2>1. IdSpan * NDrives <= q * NDrives
    BY <1>1, <1>2
  <2> QED BY <2>1, <1>1, <1>2
<1>4. q % IdSpan = q
  <2> HIDE DEF q
  <2> QED BY <1>1, <1>2, <1>3
<1> QED BY <1>1, <1>2, <1>3, <1>4 DEF IdOf

\* A sector call reaches the driver that owns the id in its drive number, and
\* none if nobody owns it (disk.c:49-71).
THEOREM CallsFindOwner == DiskSpec => AnswersItsOwner
<1>1. DiskInv /\ [DiskNext]_diskVars =>
        [answered' # answered /\ answered'.number < IdSpan * NDrives =>
           \A d \in Drivers :
             answered'.driver = d <=> answered'.number \div NDrives \in owns[d]]_diskVars
  <2> SUFFICES ASSUME DiskInv, [DiskNext]_diskVars, answered' # answered,
                      answered'.number < IdSpan * NDrives, NEW d \in Drivers
               PROVE  answered'.driver = d <=>
                        answered'.number \div NDrives \in owns[d]
    OBVIOUS
  <2>1. PICK number \in DriveNumbers : disk_sectors(number)
    BY DEF DiskNext, diskVars, register_disk_handler, unregister_disk_handler, StartWalk,
           next_disk_handler
  <2> DEFINE id == IdOf(number)
  <2>2. /\ answered'.number = number
        /\ answered'.driver = IF Refused(id) THEN NoDriver ELSE handlers[id]
    BY <2>1 DEF disk_sectors
  <2>3. id = number \div NDrives /\ id \in Ids \cup {NHandlers}
    BY <2>2, UpperHalf, DiskAssumption DEF Ids, IdSpan
  <2> HIDE DEF id
  <2>4. CASE Refused(id)
    <3>1. id \notin owns[d]
      BY <2>3, <2>4, DiskAssumption DEF Refused, Used, Ids, DiskInv, DiskTypeOK, Registry
    <3>2. owns' = owns
      BY <2>1 DEF disk_sectors
    <3> QED BY <2>2, <2>3, <2>4, <3>1, DiskAssumption
  <2>5. CASE ~ Refused(id)
    BY <2>2, <2>3, <2>5 DEF Refused, Used, DiskInv, DiskTypeOK, Registry
  <2> QED BY <2>4, <2>5
<1> QED BY <1>1, DiskInvariance, PTL DEF DiskSpec, AnswersItsOwner

----------------------------------------------------------------------------
(***************************************************************************)
(* The AHCI driver: what a call and the controller know of each other at   *)
(* each place of the call.                                                 *)
(***************************************************************************)
\* From the fill on, the call has a slot the controller does not own, until it
\* issues it.
Chosen ==
  /\ pc \in {"fill", "ready", "check", "issue"} => slot \in Slots \ ci
  /\ pc \in {"wait_ci", "wait_is", "verdict"} => slot \in Slots
  /\ pc = "verdict" => slot \notin ci
  /\ pc # "idle" => request \in Requests

\* The slot holds the command of the request once it is filled.
Filled ==
  pc \in {"ready", "check", "issue", "wait_ci", "wait_is", "verdict"} =>
    /\ tables[slot].write = request.write
    /\ tables[slot].first = request.first % SectorSpan
    /\ tables[slot].count = request.count % CountSpan

\* While the controller runs, what is issued is the call's own slot, and what
\* is neither issued nor failed was carried out; nothing was before the issue.
Progress ==
  /\ running /\ pc \notin {"wait_ci", "wait_is"} => ci = {}
  /\ running /\ pc \in {"wait_ci", "wait_is"} => ci \subseteq {slot}
  /\ pc \in {"clear", "find", "fill", "ready", "check", "issue"} => done = {}
  /\ pc \in {"wait_ci", "wait_is"} /\ slot \in ci => done = {}
  /\ pc \in {"wait_ci", "wait_is", "verdict"} /\ slot \notin ci =>
       done = {[slot |-> slot, command |-> tables[slot]]} \/ (~running /\ error)

\* Once the controller has stopped, a call that waits has its slot issued, or
\* sees the error; and an error that is seen stopped it.
StoppedCalls ==
  /\ error /\ pc \notin {"idle", "clear"} => ~running
  /\ ~running => (pc \in {"wait_ci", "wait_is", "verdict"} => slot \in ci \/ error)

Types ==
  /\ tables \in [Slots -> Commands]
  /\ ci \subseteq Slots
  /\ pc \in {"idle", "clear", "find", "fill", "ready", "check", "issue",
             "wait_ci", "wait_is", "verdict"}
  /\ request \in Requests \cup {[write |-> FALSE, first |-> 0, count |-> 0]}
  /\ slot \in Slots \cup {NoSlot}
  /\ cap \in Caps /\ spin \in 0 .. MaxSpin /\ result \in 0 .. 4
  /\ abar \in BOOLEAN /\ error \in BOOLEAN /\ busy \in BOOLEAN /\ running \in BOOLEAN
  /\ done \subseteq [slot : Slots, command : Commands]

PortInv == Types /\ Chosen /\ Filled /\ Progress /\ StoppedCalls

----------------------------------------------------------------------------
\* A command's bytes are of their types.
LEMMA CommandType ==
  ASSUME NEW r \in Requests, NEW old \in Commands
  PROVE  /\ FIS(r, old) \in Commands
         /\ FIS(r, old).write = r.write
         /\ FIS(r, old).first = r.first % SectorSpan
         /\ FIS(r, old).count = r.count % CountSpan
<1>1. /\ r.first \in Nat /\ r.count \in Nat /\ r.write \in BOOLEAN
      /\ SectorSpan \in Nat \ {0} /\ CountSpan \in Nat \ {0}
  <2>1. r.first \in FirstSectors /\ r.count \in Counts /\ r.write \in BOOLEAN
    BY DEF Requests
  <2>2. FirstSectors \subseteq Nat /\ Counts \subseteq Nat
    BY AhciAssumption
  <2> QED  BY <2>1, <2>2, AhciAssumption
<1>2. r.first % SectorSpan \in Nat /\ r.count % CountSpan \in 0 .. CountSpan - 1
  BY <1>1
<1>3. old.length \in Lengths \cup {0}
  BY DEF Commands
<1> QED  BY <1>1, <1>2, <1>3 DEF FIS, Commands

\* The slots find_cmd_slot looks at exist in tables.
LEMMA FreeAreSlots ==
  ASSUME cap \in Caps
  PROVE  FreeSlots \subseteq Slots \ ci
<1>1. cap \in Nat /\ SlotFields \in Nat \ {0}
  BY AhciAssumption
<1>2. cmd_slots \in 0 .. SlotFields - 1
  BY <1>1 DEF cmd_slots
<1> QED  BY <1>1, <1>2 DEF FreeSlots, Slots

LEMMA InitInv == Init => PortInv
<1> SUFFICES ASSUME Init PROVE PortInv
  OBVIOUS
<1>1. PICK n \in Lengths : tables = [s \in Slots |-> Blank(n)]
  BY DEF Init
<1>2. Blank(n) \in Commands
  <2>1. CountSpan \in Nat /\ CountSpan > 0
    BY AhciAssumption
  <2>2. 0 \in 0 .. CountSpan - 1
    BY <2>1
  <2>3. 0 \in Nat /\ FALSE \in BOOLEAN /\ n \in Lengths \cup {0}
    OBVIOUS
  <2> QED  BY <2>2, <2>3 DEF Blank, Commands
<1>3. Types
  BY <1>1, <1>2, AhciAssumption DEF Init, Types
<1> QED  BY <1>3 DEF Init, PortInv, Chosen, Filled, Progress, StoppedCalls

----------------------------------------------------------------------------
\* One lemma per action: what it disturbs is little.

LEMMA StepRequest ==
  ASSUME PortInv, NEW r \in Requests, ahci_read_write(r)
  PROVE  PortInv'
BY DEF PortInv, Types, Chosen, Filled, Progress, StoppedCalls, ahci_read_write, port

LEMMA StepClear == ASSUME PortInv, ClearStatus PROVE PortInv'
BY DEF PortInv, Types, Chosen, Filled, Progress, StoppedCalls, ClearStatus

LEMMA StepFind == ASSUME PortInv, find_cmd_slot PROVE PortInv'
<1>1. FreeSlots \subseteq Slots \ ci
  BY FreeAreSlots DEF PortInv, Types
<1> QED
  BY <1>1 DEF PortInv, Types, Chosen, Filled, Progress, StoppedCalls, find_cmd_slot,
    Finish, port

\* A command filled in is the request's.
LEMMA StepFill == ASSUME PortInv, FillCommand PROVE PortInv'
<1> USE DEF port
<1>1. request \in Requests
      /\ slot \in Slots \ ci /\ tables \in [Slots -> Commands]
  BY DEF PortInv, Types, Chosen, FillCommand
<1>2. tables[slot] \in Commands
  BY <1>1
<1>3. /\ FIS(request, tables[slot]) \in Commands
      /\ FIS(request, tables[slot]).write = request.write
      /\ FIS(request, tables[slot]).first = request.first % SectorSpan
      /\ FIS(request, tables[slot]).count = request.count % CountSpan
  BY <1>1, <1>2, CommandType DEF PortInv
<1>4. tables' \in [Slots -> Commands] /\ tables'[slot] = FIS(request, tables[slot])
  BY <1>1, <1>3 DEF FillCommand
<1>5. Types'
  BY <1>4, AhciAssumption DEF PortInv, Types, FillCommand
<1> QED
  BY <1>1, <1>3, <1>4, <1>5
    DEF PortInv, Chosen, Filled, Progress, StoppedCalls, FillCommand

LEMMA StepReady == ASSUME PortInv, AwaitReady \/ CheckReady PROVE PortInv'
<1>1. CASE AwaitReady
  BY <1>1, AhciAssumption
    DEF PortInv, Types, Chosen, Filled, Progress, StoppedCalls, AwaitReady, port
<1>2. CASE CheckReady
  BY <1>2 DEF PortInv, Types, Chosen, Filled, Progress, StoppedCalls, CheckReady, Finish, port
<1> QED  BY <1>1, <1>2

LEMMA StepIssue == ASSUME PortInv, Issue PROVE PortInv'
BY DEF PortInv, Types, Chosen, Filled, Progress, StoppedCalls, Issue

LEMMA StepPoll == ASSUME PortInv, PollCi \/ PollError \/ Verdict PROVE PortInv'
<1> USE DEF PortInv, Types, Chosen, Filled, Progress, StoppedCalls, Finish, Step, port
<1>1. CASE PollCi
  BY <1>1 DEF PollCi
<1>2. CASE PollError
  BY <1>2 DEF PollError
<1>3. CASE Verdict
  BY <1>3 DEF Verdict
<1> QED  BY <1>1, <1>2, <1>3

\* What the controller carries out or fails is the command of the call.
LEMMA StepController ==
  ASSUME PortInv, NEW s \in Slots, Complete(s) \/ Fail(s)
  PROVE  PortInv'
<1> USE DEF call
<1>1. pc \in {"wait_ci", "wait_is"} /\ s = slot /\ s \in ci /\ running /\ done = {}
  BY DEF PortInv, Progress, Types, Complete, Fail
<1>2. CASE Complete(s)
  <2>1. /\ ci' = ci \ {slot} /\ running' = running /\ error' = error
        /\ done' = {[slot |-> slot, command |-> tables[slot]]}
        /\ UNCHANGED <<abar, cap, tables, busy, pc, request, slot, spin, result>>
    BY <1>1, <1>2 DEF Complete
  <2>2. [slot |-> slot, command |-> tables[slot]] \in [slot : Slots, command : Commands]
    BY <1>1 DEF PortInv, Types
  <2>3. Types'
    BY <2>1, <2>2 DEF PortInv, Types
  <2>4. Chosen' /\ Filled' /\ StoppedCalls'
    BY <1>1, <2>1 DEF PortInv, Types, Chosen, Filled, StoppedCalls
  <2>5. Progress'
    BY <1>1, <2>1 DEF PortInv, Progress
  <2> QED  BY <2>3, <2>4, <2>5 DEF PortInv
<1>3. CASE Fail(s)
  BY <1>1, <1>3 DEF PortInv, Types, Chosen, Filled, Progress, StoppedCalls, Fail
<1> QED  BY <1>2, <1>3

LEMMA StepToggle == ASSUME PortInv, Toggle PROVE PortInv'
BY DEF PortInv, Types, Chosen, Filled, Progress, StoppedCalls, Toggle, call

LEMMA NextInv == PortInv /\ [Next]_vars => PortInv'
<1> SUFFICES ASSUME PortInv, [Next]_vars PROVE PortInv'
  OBVIOUS
<1>1. CASE UNCHANGED vars
  BY <1>1 DEF PortInv, Types, Chosen, Filled, Progress, StoppedCalls, vars, port, call
<1>2. CASE Next
  BY <1>2, StepRequest, StepClear, StepFind, StepFill, StepReady, StepIssue, StepPoll,
    StepController, StepToggle DEF Next, Driver, Controller
<1> QED  BY <1>1, <1>2

\* The invariant holds in every reachable state.
THEOREM PortInvariance == Spec => []PortInv
BY InitInv, NextInv, PTL DEF Spec

----------------------------------------------------------------------------
\* The state keeps its types (ahci.c:53-181).
THEOREM PortTypeCorrect == Spec => []TypeOK
<1>1. PortInv => TypeOK
  BY DEF PortInv, Types, TypeOK
<1> QED  BY <1>1, PortInvariance, PTL

\* As long as the controller runs, no call leaves a command behind
\* (ahci.c:97-110).
THEOREM NothingLeft == Spec => []NothingLeftIssued
<1>1. PortInv => NothingLeftIssued
  BY DEF PortInv, Types, TypeOK, Progress, NothingLeftIssued
<1> QED  BY <1>1, PortInvariance, PTL

\* The driver never touches header and table of a slot the controller owns
\* (ahci.c:17-29, 62-90).
THEOREM OwnedKept == Spec => OwnedSlotsKept
<1> DEFINE Kept == \A s \in ci : tables'[s] = tables[s]
<1>1. PortInv /\ [Next]_vars => [Kept]_vars
  <2> SUFFICES ASSUME PortInv, Next PROVE Kept
    BY DEF vars
  <2>1. CASE FillCommand
    BY <2>1 DEF PortInv, Types, Chosen, FillCommand
  <2>2. CASE ~FillCommand
    <3>1. UNCHANGED tables
      BY <2>2 DEF Next, Driver, Controller, ahci_read_write, ClearStatus, find_cmd_slot,
        AwaitReady, CheckReady, Issue, PollCi, PollError, Verdict, Complete, Fail, Toggle
    <3> QED  BY <3>1
  <2> QED  BY <2>1, <2>2
<1> QED  BY <1>1, PortInvariance, PTL DEF Spec, OwnedSlotsKept

\* A call ends with 0 in Verdict alone, without an error to be seen.
LEMMA EndsWithZero ==
  ASSUME Next, pc # "idle", pc' = "idle", result' = 0
  PROVE  pc = "verdict" /\ ~error /\ UNCHANGED <<request, slot, tables, done, ci, running>>
BY DEF Next, Driver, Controller, ahci_read_write, ClearStatus, find_cmd_slot, FillCommand,
  AwaitReady, CheckReady, Issue, PollCi, PollError, Verdict, Complete, Fail, Toggle,
  Finish, Step, port, call

\* A call that reports success had its command carried out, once and as asked
\* (ahci.c:78-115).
THEOREM SuccessHonest == Spec => SuccessIsHonest
<1> DEFINE A == pc # "idle" /\ pc' = "idle" /\ result' = 0 => Honest
<1>1. PortInv /\ [Next]_vars => [A]_vars
  <2> SUFFICES ASSUME PortInv, Next, pc # "idle", pc' = "idle", result' = 0
               PROVE  Honest
    BY DEF vars
  <2>1. pc = "verdict" /\ ~error
    BY EndsWithZero
  <2>2. done = {[slot |-> slot, command |-> tables[slot]]}
    BY <2>1 DEF PortInv, Chosen, Progress
  <2>3. /\ tables[slot].write = request.write
        /\ tables[slot].first = request.first % SectorSpan
        /\ tables[slot].count = request.count % CountSpan
    BY <2>1 DEF PortInv, Filled
  <2>4. /\ request.first \in 0 .. SectorSpan - 1 /\ SectorSpan \in Nat \ {0}
        /\ CountSpan \in Nat \ {0}
    <3>1. request.first \in FirstSectors
      BY DEF PortInv, Chosen, Requests
    <3> QED  BY <3>1, AhciAssumption
  <2>5. request.first % SectorSpan = request.first
    BY <2>4
  <2>6. ASSUME request.count \in 1 .. CountSpan
        PROVE  SectorsOf(tables[slot]) = request.count
    <3>1. CASE request.count = CountSpan
      <4>1. request.count % CountSpan = 0
        BY <2>4, <3>1
      <4> QED  BY <2>3, <3>1, <4>1 DEF SectorsOf
    <3>2. CASE request.count \in 1 .. CountSpan - 1
      <4>1. request.count % CountSpan = request.count
        BY <2>4, <3>2
      <4> QED  BY <2>3, <3>2, <4>1 DEF SectorsOf
    <3> QED  BY <2>4, <2>6, <3>1, <3>2
  <2> QED  BY <2>2, <2>3, <2>5, <2>6 DEF Honest
<1> QED  BY <1>1, PortInvariance, PTL DEF Spec, SuccessIsHonest

\* After an error nothing succeeds, and a call that waits does so for ever
\* (ahci.c:55, 103-110).
THEOREM ErrorFinal == Spec => ErrorIsFinal
<1> DEFINE A == /\ ~running /\ pc # "idle" /\ pc' = "idle" => result' # 0
                /\ Hung => Hung'
<1>1. PortInv /\ [Next]_vars => [A]_vars
  <2> SUFFICES ASSUME PortInv, Next PROVE A
    BY DEF vars
  <2>1. ~running /\ pc # "idle" /\ pc' = "idle" => result' # 0
    BY EndsWithZero DEF PortInv, StoppedCalls, Chosen
  <2>2. Hung => Hung'
    BY DEF Hung, Next, Driver, Controller, ahci_read_write, ClearStatus, find_cmd_slot,
      FillCommand, AwaitReady, CheckReady, Issue, PollCi, PollError, Verdict, Complete,
      Fail, Toggle, Finish, Step, port, call
  <2> QED  BY <2>1, <2>2
<1> QED  BY <1>1, PortInvariance, PTL DEF Spec, ErrorIsFinal
=============================================================================

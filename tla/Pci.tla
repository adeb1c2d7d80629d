-------------------------------- MODULE Pci --------------------------------
(***************************************************************************)
(* The driver registry and the bus scan of src/pci/pci.c: the drivers      *)
(* registered while kernel_main runs the init functions, then pci_scan,    *)
(* which looks for what answers on each bus and launches its driver.       *)
(* Configuration space is what it answers: a class, or nothing (a vendor   *)
(* of 0xFFFF).  All of it runs on the kernel's one thread.                 *)
(***************************************************************************)
EXTENDS Integers, Sequences

CONSTANTS
  NSlots,                      \* entries of pci_drivers: 255
  NBuses, NDevices, NFunctions, \* 256, 32 and 8
  ShortSpan, ByteSpan,         \* 2^16 and 2^8: values of a uint16_t and of a uint8_t
  Classes,                     \* pairs of class and subclass
  Registrations                \* the class of each pci_register_driver, in order

ASSUME SizesAssumption ==
  /\ NSlots \in Nat \ {0}
  /\ NBuses \in Nat \ {0} /\ NDevices \in Nat \ {0} /\ NFunctions \in Nat \ {0}
  /\ ShortSpan \in Nat /\ ByteSpan \in Nat
  /\ NBuses < ShortSpan /\ NDevices < ByteSpan /\ NFunctions < ByteSpan
ASSUME RegistrationsAssumption == Registrations \in Seq(Classes)

Slots == 0 .. NSlots - 1
Functions == (0 .. NBuses - 1) \X (0 .. NDevices - 1) \X (0 .. NFunctions - 1)
Drivers == 1 .. Len(Registrations)   \* by their place in Registrations

Absent == "absent"
NoDriver == 0   \* an unused slot; also "No driver registered for"

VARIABLES
  config,       \* what each function of each device answers
  pci_drivers,  \* slot |-> the driver in it, or NoDriver
  registered,   \* how many have called pci_register_driver
  pc, i, j, k,  \* the three loops of pci_scan
  launches      \* function |-> the drivers launch_driver launched for it

vars == <<config, pci_drivers, registered, pc, i, j, k, launches>>

----------------------------------------------------------------------------
Init ==
  /\ config \in [Functions -> Classes \cup {Absent}]
  /\ pci_drivers = [s \in Slots |-> NoDriver]
  /\ registered = 0
  /\ pc = "register" /\ i = 0 /\ j = 0 /\ k = 0
  /\ launches = [f \in Functions |-> <<>>]

\* The loop goes on after it has found an unused entry.
pci_register_driver(driver) ==
  pci_drivers' = [s \in Slots |-> IF pci_drivers[s] = NoDriver THEN driver ELSE pci_drivers[s]]

Register ==
  /\ pc = "register" /\ registered < Len(Registrations)
  /\ pci_register_driver(registered + 1)
  /\ registered' = registered + 1
  /\ UNCHANGED <<config, pc, i, j, k, launches>>

StartScan ==
  /\ pc = "register" /\ registered = Len(Registrations)
  /\ pc' = "bus"
  /\ UNCHANGED <<config, pci_drivers, registered, i, j, k, launches>>

\* The driver in the first used slot of the class, if any.
Serving(class) ==
  {s \in Slots : pci_drivers[s] # NoDriver /\ Registrations[pci_drivers[s]] = class}
FirstServing(class) ==
  IF Serving(class) = {} THEN NoDriver
  ELSE pci_drivers[CHOOSE s \in Serving(class) : \A r \in Serving(class) : s <= r]

launch_driver(f) ==
  launches' = [launches EXCEPT ![f] = Append(@, FirstServing(config[f]))]

Answers(f) == config[f] # Absent

\* The counters: i is a uint16_t, j and k are a uint8_t each.
Inc16(n) == (n + 1) % ShortSpan
Inc8(n) == (n + 1) % ByteSpan

\* Slip: a bus on which nothing answers is not passed by.
ScanBus_Stays ==
  /\ pc = "bus"
  /\ \/ i = NBuses /\ pc' = "done" /\ UNCHANGED <<i, j>>
     \/ i < NBuses /\ Answers(<<i, 0, 0>>) /\ pc' = "device" /\ j' = 0 /\ UNCHANGED i
     \/ i < NBuses /\ ~Answers(<<i, 0, 0>>) /\ UNCHANGED <<pc, i, j>>
  /\ UNCHANGED <<config, pci_drivers, registered, k, launches>>

\* One turn of each loop.
ScanBus ==
  /\ pc = "bus"
  /\ \/ i = NBuses /\ pc' = "done" /\ UNCHANGED <<i, j>>
     \/ i < NBuses /\ Answers(<<i, 0, 0>>) /\ pc' = "device" /\ j' = 0 /\ UNCHANGED i
     \/ i < NBuses /\ ~Answers(<<i, 0, 0>>) /\ i' = Inc16(i) /\ UNCHANGED <<pc, j>>
  /\ UNCHANGED <<config, pci_drivers, registered, k, launches>>

\* Slip: the inner loop starts at 0.
ScanDevice_FromZero ==
  /\ pc = "device"
  /\ \/ j = NDevices /\ pc' = "bus" /\ i' = Inc16(i) /\ UNCHANGED <<j, k, launches>>
     \/ /\ j < NDevices /\ Answers(<<i, j, 0>>)
        /\ launch_driver(<<i, j, 0>>)
        /\ pc' = "function" /\ k' = 0 /\ UNCHANGED <<i, j>>
     \/ j < NDevices /\ ~Answers(<<i, j, 0>>) /\ j' = Inc8(j) /\ UNCHANGED <<pc, i, k, launches>>
  /\ UNCHANGED <<config, pci_drivers, registered>>

ScanDevice ==
  /\ pc = "device"
  /\ \/ /\ j = NDevices
        /\ pc' = "bus" /\ i' = Inc16(i)
        /\ UNCHANGED <<j, k, launches>>
     \/ /\ j < NDevices /\ Answers(<<i, j, 0>>)
        /\ launch_driver(<<i, j, 0>>)
        /\ pc' = "function" /\ k' = 1
        /\ UNCHANGED <<i, j>>
     \/ /\ j < NDevices /\ ~Answers(<<i, j, 0>>)
        /\ j' = Inc8(j)
        /\ UNCHANGED <<pc, i, k, launches>>
  /\ UNCHANGED <<config, pci_drivers, registered>>

ScanFunction ==
  /\ pc = "function"
  /\ \/ /\ k = NFunctions
        /\ pc' = "device" /\ j' = Inc8(j)
        /\ UNCHANGED <<k, launches>>
     \/ /\ k < NFunctions
        /\ IF Answers(<<i, j, k>>) THEN launch_driver(<<i, j, k>>) ELSE UNCHANGED launches
        /\ k' = Inc8(k)
        /\ UNCHANGED <<pc, j>>
  /\ UNCHANGED <<config, pci_drivers, registered, i>>

Next == Register \/ StartScan \/ ScanBus \/ ScanDevice \/ ScanFunction

\* The fairness: all of it is plain code on the kernel's one thread.  A driver
\* that is launched comes back, as those that the built code registers do.
Spec == Init /\ [][Next]_vars /\ WF_vars(Next)

----------------------------------------------------------------------------
TypeOK ==
  /\ config \in [Functions -> Classes \cup {Absent}]
  /\ pci_drivers \in [Slots -> Drivers \cup {NoDriver}]
  /\ registered \in 0 .. Len(Registrations)
  /\ pc \in {"register", "bus", "device", "function", "done"}
  /\ i \in 0 .. NBuses /\ j \in 0 .. NDevices /\ k \in 0 .. NFunctions
  /\ launches \in [Functions -> Seq(Drivers \cup {NoDriver})]

\* A function is looked for only behind a function 0 of its device, and a
\* device only behind a device 0 of its bus.
Reachable(f) == Answers(f) /\ Answers(<<f[1], f[2], 0>>) /\ Answers(<<f[1], 0, 0>>)

\* Whether the scan has come past function f.
Passed(f) ==
  \/ pc = "done"
  \/ f[1] < i
  \/ f[1] = i /\ pc \in {"device", "function"} /\ f[2] < j
  \/ f[1] = i /\ pc = "function" /\ f[2] = j /\ f[3] < k

\* At every moment of the scan, every function it has come past that answers
\* (behind a function 0 of its device and a device 0 of its bus) was launched
\* or reported once, and nothing else was.
EachOnce ==
  \A f \in Functions :
    Len(launches[f]) = IF pc # "register" /\ Passed(f) /\ Reachable(f) THEN 1 ELSE 0

\* The registry and the scan keep their types, and the scan its promise.
ScanCorrect == TypeOK /\ EachOnce

\* The scan comes to an end, whatever answers: none of its counters, some of
\* which are only as wide as a byte, goes round before its loop's bound.
ScanEnds == <>(pc = "done")

\* What pci.h:40 and pci.c:154 say of pci_register_driver: the driver that is
\* passed in is recorded there, in the first unused slot, while there is one.
DriversRecorded ==
  registered <= NSlots => \A d \in 1 .. registered : \E s \in Slots : pci_drivers[s] = d
=============================================================================

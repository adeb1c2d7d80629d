----------------------------- MODULE PciProofs -----------------------------
(***************************************************************************)
(* Proofs about Pci, for every number of buses, devices, functions and     *)
(* slots, every configuration and every list of registrations; and about   *)
(* PciConfig, for every size of a function's space and of its header.      *)
(***************************************************************************)
EXTENDS PciConfig, TLAPS

\* The first registrant is in every slot.
FirstEverywhere ==
  /\ registered \in 0 .. Len(Registrations)
  /\ pci_drivers = [s \in Slots |-> IF registered = 0 THEN NoDriver ELSE 1]

\* Where the loops of pci_scan are, and what they found on the way.
ScanPlace ==
  /\ pc \in {"register", "bus", "device", "function", "done"}
  /\ i \in 0 .. NBuses /\ j \in 0 .. NDevices /\ k \in 0 .. NFunctions
  /\ pc = "done" => i = NBuses
  /\ pc = "register" => i = 0
  /\ pc \in {"device", "function"} => i < NBuses /\ Answers(<<i, 0, 0>>)
  /\ pc = "function" => j < NDevices /\ k > 0 /\ Answers(<<i, j, 0>>)

\* Whatever it launches is registered.
Launched == launches \in [Functions -> Seq(Drivers \cup {NoDriver})]

IInv == FirstEverywhere /\ ScanPlace /\ Launched /\ EachOnce

----------------------------------------------------------------------------
LEMMA FunctionsType ==
  \A f \in Functions : /\ f = <<f[1], f[2], f[3]>>
                       /\ f[1] \in 0 .. NBuses - 1
                       /\ f[2] \in 0 .. NDevices - 1
                       /\ f[3] \in 0 .. NFunctions - 1
BY DEF Functions

\* No counter goes round within its loop.
LEMMA Increments ==
  /\ \A n \in 0 .. NBuses : n < NBuses => Inc16(n) = n + 1
  /\ \A n \in 0 .. NDevices : n < NDevices => Inc8(n) = n + 1
  /\ \A n \in 0 .. NFunctions : n < NFunctions => Inc8(n) = n + 1
BY SizesAssumption DEF Inc16, Inc8

LEMMA PlaceIsFunction ==
  \A a \in 0 .. NBuses - 1, b \in 0 .. NDevices - 1, c \in 0 .. NFunctions - 1 :
    <<a, b, c>> \in Functions
BY DEF Functions

\* With the first registrant in every slot, launch_driver finds it or nothing.
FirstOrNone(class) ==
  IF registered > 0 /\ class = Registrations[1] THEN 1 ELSE NoDriver

LEMMA FindsFirst ==
  ASSUME FirstEverywhere, NEW class
  PROVE  FirstServing(class) = FirstOrNone(class)
<1> USE SizesAssumption DEF NoDriver
<1>1. \A s \in Slots : pci_drivers[s] = IF registered = 0 THEN 0 ELSE 1
  BY DEF FirstEverywhere
<1>2. CASE registered > 0 /\ class = Registrations[1]
  <2>1. Serving(class) = Slots
    BY <1>1, <1>2 DEF Serving
  <2>2. 0 \in Slots /\ \A r \in Slots : 0 <= r
    BY DEF Slots
  <2>3. PICK s \in Slots : FirstServing(class) = pci_drivers[s]
    BY <2>1, <2>2 DEF FirstServing
  <2> QED
    BY <1>1, <1>2, <2>3 DEF FirstOrNone
<1>3. CASE ~(registered > 0 /\ class = Registrations[1])
  <2>1. Serving(class) = {}
    BY <1>1, <1>3 DEF Serving, FirstEverywhere
  <2> QED
    BY <1>3, <2>1 DEF FirstServing, FirstOrNone
<1> QED
  BY <1>2, <1>3

\* What launch_driver(f) does to the invariant's part about launches.
LEMMA LaunchEffect ==
  ASSUME FirstEverywhere, Launched, NEW f \in Functions, launch_driver(f)
  PROVE  /\ Launched'
         /\ launches'[f] = Append(launches[f], FirstOrNone(config[f]))
         /\ \A g \in Functions \ {f} : launches'[g] = launches[g]
<1>1. FirstOrNone(config[f]) \in Drivers \cup {NoDriver}
  BY RegistrationsAssumption DEF FirstOrNone, FirstEverywhere, Drivers
<1> QED
  BY <1>1, FindsFirst DEF Launched, launch_driver

----------------------------------------------------------------------------
LEMMA InitInv == Init => IInv
<1> SUFFICES ASSUME Init PROVE IInv
  OBVIOUS
<1>1. FirstEverywhere
  BY RegistrationsAssumption DEF Init, FirstEverywhere
<1>2. ScanPlace
  BY SizesAssumption DEF Init, ScanPlace
<1>3. Launched
  BY DEF Init, Launched
<1>4. EachOnce
  BY DEF Init, EachOnce
<1> QED
  BY <1>1, <1>2, <1>3, <1>4 DEF IInv

\* Steps of the scan leave the registry and what is behind it alone.
LEMMA ScanKeepsRegistry ==
  ASSUME FirstEverywhere, UNCHANGED <<pci_drivers, registered>>
  PROVE  FirstEverywhere'
BY DEF FirstEverywhere

LEMMA NoLaunch ==
  ASSUME Launched, UNCHANGED launches
  PROVE  Launched'
BY DEF Launched

LEMMA RegisterStep == IInv /\ Register => IInv'
<1> SUFFICES ASSUME IInv, Register PROVE IInv'
  OBVIOUS
<1>1. FirstEverywhere'
  BY RegistrationsAssumption
  DEF IInv, FirstEverywhere, Register, pci_register_driver, NoDriver
<1>2. ScanPlace'
  BY DEF IInv, ScanPlace, Register, Answers
<1>3. Launched' /\ EachOnce'
  BY DEF IInv, EachOnce, Launched, Register
<1> QED
  BY <1>1, <1>2, <1>3 DEF IInv

LEMMA StartStep == IInv /\ StartScan => IInv'
<1> SUFFICES ASSUME IInv, StartScan PROVE IInv'
  OBVIOUS
<1>1. FirstEverywhere' /\ Launched'
  BY ScanKeepsRegistry, NoLaunch DEF IInv, StartScan
<1>2. ScanPlace'
  BY DEF IInv, ScanPlace, StartScan, Answers
<1>3. EachOnce'
  BY FunctionsType DEF IInv, EachOnce, ScanPlace, StartScan, Passed, Reachable, Answers
<1> QED
  BY <1>1, <1>2, <1>3 DEF IInv

LEMMA BusStep == IInv /\ ScanBus => IInv'
<1> SUFFICES ASSUME IInv, ScanBus PROVE IInv'
  OBVIOUS
<1>1. FirstEverywhere' /\ Launched'
  BY ScanKeepsRegistry, NoLaunch DEF IInv, ScanBus
<1>2. ScanPlace'
  BY SizesAssumption, Increments DEF IInv, ScanPlace, ScanBus, Answers
<1>3. ASSUME NEW f \in Functions
      PROVE  Passed(f)' /\ Reachable(f)' <=> Passed(f) /\ Reachable(f)
  BY FunctionsType, Increments DEF IInv, ScanPlace, ScanBus, Passed, Reachable, Answers
<1>4. EachOnce'
  BY <1>3 DEF IInv, EachOnce, ScanBus
<1> QED
  BY <1>1, <1>2, <1>4 DEF IInv

----------------------------------------------------------------------------
\* A step that passes exactly one function, which answers and is launched.
LEMMA LaunchOnce ==
  ASSUME IInv, pc # "register", pc' # "register", UNCHANGED config,
         NEW f \in Functions, launch_driver(f),
         Reachable(f), ~Passed(f), Passed(f)',
         \A g \in Functions \ {f} : Passed(g)' /\ Reachable(g) <=> Passed(g) /\ Reachable(g)
  PROVE  EachOnce'
<1>1. launches[f] = <<>>
  BY DEF IInv, EachOnce, Launched
<1>2. launches'[f] = <<FirstOrNone(config[f])>>
  BY <1>1, LaunchEffect DEF IInv, Launched
<1>3. Len(launches'[f]) = 1
  BY <1>2
<1>4. \A g \in Functions \ {f} : launches'[g] = launches[g]
  BY LaunchEffect DEF IInv
<1>5. \A g \in Functions : Reachable(g)' <=> Reachable(g)
  BY DEF Reachable, Answers
<1> QED
  BY <1>1, <1>3, <1>4, <1>5 DEF IInv, EachOnce

LEMMA DeviceStep == IInv /\ ScanDevice => IInv'
<1> SUFFICES ASSUME IInv, ScanDevice PROVE IInv'
  OBVIOUS
<1>1. FirstEverywhere'
  BY ScanKeepsRegistry DEF IInv, ScanDevice
<1>2. ScanPlace'
  BY SizesAssumption, Increments DEF IInv, ScanPlace, ScanDevice, Answers
<1>3. CASE j < NDevices /\ Answers(<<i, j, 0>>)
  <2>1. PICK f \in Functions : f = <<i, j, 0>>
    BY <1>3, PlaceIsFunction, SizesAssumption DEF IInv, ScanPlace, ScanDevice
  <2>2. launch_driver(f) /\ UNCHANGED <<config, registered>>
    BY <1>3, <2>1 DEF ScanDevice, IInv, ScanPlace
  <2>3. f[1] = i /\ f[2] = j /\ f[3] = 0
    BY <2>1
  <2>4. Reachable(f) /\ ~Passed(f) /\ Passed(f)'
    BY <1>3, <2>1, <2>3, Increments DEF IInv, ScanPlace, ScanDevice, Reachable, Passed
  <2>5. \A g \in Functions \ {f} :
           Passed(g)' /\ Reachable(g) <=> Passed(g) /\ Reachable(g)
    <3> TAKE g \in Functions \ {f}
    <3>1. ~(g[1] = i /\ g[2] = j /\ g[3] = 0)
      BY <2>1, FunctionsType
    <3> QED
      BY <1>3, <3>1, FunctionsType, Increments DEF IInv, ScanPlace, ScanDevice, Passed
  <2>6. EachOnce'
    <3>1. pc # "register" /\ pc' # "register"
      BY <1>3 DEF ScanDevice, IInv, ScanPlace
    <3> QED
      BY <2>1, <2>2, <2>4, <2>5, <3>1, LaunchOnce
  <2>7. Launched'
    BY <2>1, <2>2, LaunchEffect DEF IInv
  <2> QED
    BY <1>1, <1>2, <2>6, <2>7 DEF IInv
<1>4. CASE ~(j < NDevices /\ Answers(<<i, j, 0>>))
  <2>1. Launched'
    BY <1>4, NoLaunch DEF IInv, ScanDevice
  <2>2. ASSUME NEW f \in Functions
        PROVE  Passed(f)' /\ Reachable(f)' <=> Passed(f) /\ Reachable(f)
    BY <1>4, FunctionsType, Increments DEF IInv, ScanPlace, ScanDevice, Passed, Reachable, Answers
  <2>3. EachOnce'
    BY <1>4, <2>2 DEF IInv, EachOnce, ScanDevice
  <2> QED
    BY <1>1, <1>2, <2>1, <2>3 DEF IInv
<1> QED
  BY <1>3, <1>4

LEMMA FunctionStep == IInv /\ ScanFunction => IInv'
<1> SUFFICES ASSUME IInv, ScanFunction PROVE IInv'
  OBVIOUS
<1>1. FirstEverywhere'
  BY ScanKeepsRegistry DEF IInv, ScanFunction
<1>2. ScanPlace'
  BY SizesAssumption, Increments DEF IInv, ScanPlace, ScanFunction, Answers
<1>3. CASE k < NFunctions /\ Answers(<<i, j, k>>)
  <2>1. PICK f \in Functions : f = <<i, j, k>>
    BY <1>3, PlaceIsFunction, SizesAssumption DEF IInv, ScanPlace, ScanFunction
  <2>2. launch_driver(f) /\ UNCHANGED <<config, registered>>
    BY <1>3, <2>1 DEF ScanFunction, IInv, ScanPlace
  <2>3. f[1] = i /\ f[2] = j /\ f[3] = k
    BY <2>1
  <2>4. Reachable(f) /\ ~Passed(f) /\ Passed(f)'
    BY <1>3, <2>1, <2>3, Increments DEF IInv, ScanPlace, ScanFunction, Reachable, Passed
  <2>5. \A g \in Functions \ {f} :
           Passed(g)' /\ Reachable(g) <=> Passed(g) /\ Reachable(g)
    <3> TAKE g \in Functions \ {f}
    <3>1. ~(g[1] = i /\ g[2] = j /\ g[3] = k)
      BY <2>1, FunctionsType
    <3> QED
      BY <1>3, <3>1, FunctionsType, Increments DEF IInv, ScanPlace, ScanFunction, Passed
  <2>6. EachOnce'
    <3>1. pc # "register" /\ pc' # "register"
      BY <1>3 DEF ScanFunction, IInv, ScanPlace
    <3> QED
      BY <2>1, <2>2, <2>4, <2>5, <3>1, LaunchOnce
  <2>7. Launched'
    BY <2>1, <2>2, LaunchEffect DEF IInv
  <2> QED
    BY <1>1, <1>2, <2>6, <2>7 DEF IInv
<1>4. CASE ~(k < NFunctions /\ Answers(<<i, j, k>>))
  <2>1. Launched'
    BY <1>4, NoLaunch DEF IInv, ScanFunction
  <2>2. ASSUME NEW f \in Functions
        PROVE  Passed(f)' /\ Reachable(f)' <=> Passed(f) /\ Reachable(f)
    BY <1>4, FunctionsType, Increments DEF IInv, ScanPlace, ScanFunction, Passed, Reachable, Answers
  <2>3. EachOnce'
    BY <1>4, <2>2 DEF IInv, EachOnce, ScanFunction
  <2> QED
    BY <1>1, <1>2, <2>1, <2>3 DEF IInv
<1> QED
  BY <1>3, <1>4

LEMMA StutterStep == IInv /\ UNCHANGED vars => IInv'
BY DEF IInv, FirstEverywhere, ScanPlace, Launched, EachOnce, Passed,
   Reachable, Answers, vars

THEOREM Invariance == Spec => []IInv
<1>1. IInv /\ [Next]_vars => IInv'
  BY RegisterStep, StartStep, BusStep, DeviceStep, FunctionStep, StutterStep DEF Next
<1> QED
  BY <1>1, InitInv, PTL DEF Spec

\* Configuration space does not change.
LEMMA ConfigType == Spec => [](config \in [Functions -> Classes \cup {Absent}])
<1>1. Init => config \in [Functions -> Classes \cup {Absent}]
  BY DEF Init
<1>2. ASSUME config \in [Functions -> Classes \cup {Absent}], [Next]_vars
      PROVE  (config \in [Functions -> Classes \cup {Absent}])'
  BY <1>2 DEF Next, Register, StartScan, ScanBus, ScanDevice, ScanFunction,
              launch_driver, vars
<1> QED
  BY <1>1, <1>2, PTL DEF Spec

\* The scan launches a driver for, or reports, every function behind it once,
\* and whatever it launches is registered.
THEOREM OncePerFunction == Spec => []ScanCorrect
<1>1. ASSUME IInv, config \in [Functions -> Classes \cup {Absent}]
      PROVE  ScanCorrect
  <2>1. Len(Registrations) \in Nat
    BY RegistrationsAssumption
  <2>2. pci_drivers \in [Slots -> Drivers \cup {NoDriver}]
    BY <1>1, <2>1 DEF IInv, FirstEverywhere, Drivers
  <2> QED
    BY <1>1, <2>2 DEF ScanCorrect, TypeOK, IInv, FirstEverywhere, ScanPlace, Launched
<1> QED
  BY <1>1, Invariance, ConfigType, PTL

----------------------------------------------------------------------------
(***************************************************************************)
(* Configuration space.  An address is a number in a mixed radix, and what *)
(* the bridge takes from it are the digits that Address put together.      *)
(***************************************************************************)
LEMMA DivMul ==
  ASSUME NEW a \in Nat, NEW m \in Nat \ {0}, NEW b \in 0 .. m - 1
  PROVE  (a * m + b) \div m = a /\ (a * m + b) % m = b
BY SMT

LEMMA DivDef ==
  ASSUME NEW x \in Nat, NEW m \in Nat \ {0}
  PROVE  /\ x = (x \div m) * m + (x % m)
         /\ x % m \in 0 .. m - 1
         /\ x \div m \in Nat
BY SMT

\* The start of an offset's dword: offset & 0xfc.
LEMMA DwordStart ==
  ASSUME NEW x \in Nat
  PROVE  /\ (x - (x % 4)) % 4 = 0
         /\ x % 4 \in 0 .. 3
         /\ x - (x % 4) \in 0 .. x
BY SMT

\* A function's space is whole dwords, so its dwords start where those of the
\* whole configuration space do.
LEMMA DwordAligned ==
  ASSUME NEW a \in Nat, NEW s \in Nat, s % 4 = 0, NEW r \in Nat, r % 4 = 0
  PROVE  (a * s + r) % 4 = 0
<1>1. PICK p \in Nat : s = p * 4
  BY DivDef
<1>2. PICK q \in Nat : r = q * 4
  BY DivDef
<1>3. a * p \in Nat
  BY <1>1
<1>4. a * s + r = (a * p + q) * 4 + 0
  <2>1. a * (p * 4) = (a * p) * 4
    BY <1>1
  <2> QED
    BY <1>1, <1>2, <1>3, <2>1
<1>5. a * p + q \in Nat
  BY <1>2, <1>3

<1> QED
  BY <1>4, <1>5, DivMul

\* A dword that is asked for by its function and its start is that dword.
LEMMA DwordOf ==
  ASSUME NEW a \in 0 .. NBuses - 1, NEW b \in 0 .. NDevices - 1, NEW c \in 0 .. NFunctions - 1,
         NEW r \in 0 .. OffsetSpan - 1, r % 4 = 0
  PROVE  Dword(Address(a, b, c, r)) = [n \in 0 .. 3 |-> <<<<a, b, c>>, r + n>>]
<1> USE SizesAssumption, ConfigAssumption
<1> DEFINE unit == a * NDevices + b
           slot == unit * NFunctions + c
           addr == slot * OffsetSpan + r
<1>1. unit \in Nat /\ unit \div NDevices = a /\ unit % NDevices = b
  BY DivMul
<1>2. slot \in Nat /\ slot \div NFunctions = unit /\ slot % NFunctions = c
  <2> HIDE DEF unit
  <2> QED
    BY <1>1, DivMul
<1>3. addr \div OffsetSpan = slot /\ addr % OffsetSpan = r
  <2> HIDE DEF slot
  <2> QED
    BY <1>2, DivMul
<1>4. addr % 4 = 0
  <2>1. OffsetSpan \in Nat /\ r \in Nat
    OBVIOUS
  <2> HIDE DEF slot
  <2>2. (slot * OffsetSpan + r) % 4 = 0
    BY ONLY <1>2, <2>1, ConfigAssumption, r % 4 = 0, DwordAligned
  <2> QED
    BY <2>2
<1>5. Address(a, b, c, r) = addr
  BY DEF Address
<1>6. (addr % OffsetSpan) - (addr % 4) = r
  BY <1>3, <1>4
<1> HIDE DEF unit, slot, addr
<1> QED
  BY <1>1, <1>2, <1>3, <1>5, <1>6 DEF Dword

\* The two bytes of a word, out of the half of its dword.
LEMMA WordOf ==
  ASSUME NEW a \in 0 .. NBuses - 1, NEW b \in 0 .. NDevices - 1, NEW c \in 0 .. NFunctions - 1,
         NEW o \in 0 .. OffsetSpan - 1, o % 2 = 0
  PROVE  pci_read_config_word(a, b, c, o) = <<<<<<a, b, c>>, o>>, <<<<a, b, c>>, o + 1>>>>
<1> DEFINE r == o - (o % 4)
           half == IF o % 4 >= 2 THEN 2 ELSE 0
           d == Dword(Address(a, b, c, r))
<1>1. o \in Nat
  BY ConfigAssumption
<1>2. r \in 0 .. OffsetSpan - 1 /\ r % 4 = 0
  BY <1>1, DwordStart, ConfigAssumption
<1>3. o % 4 \in {0, 2}
  BY <1>1
<1>4. half \in {0, 2} /\ r + half = o
  BY <1>1, <1>3
<1>5. d = [n \in 0 .. 3 |-> <<<<a, b, c>>, r + n>>]
  <2> HIDE DEF r
  <2> QED
    BY <1>2, DwordOf
<1>6. pci_read_config_word(a, b, c, o) = <<d[half], d[half + 1]>>
  BY DEF pci_read_config_word
<1>7. r + (half + 1) = o + 1 /\ half + 1 \in 0 .. 3 /\ half \in 0 .. 3
  BY <1>1, <1>2, <1>4
<1> HIDE DEF d, half, r
<1> QED
  BY <1>4, <1>5, <1>6, <1>7

\* Wherever the loops of pci_scan stand, a header is that function's own.
LEMMA HeaderIsItsOwn ==
  ASSUME ScanPlace
  PROVE  HeaderRead
<1> USE SizesAssumption, ConfigAssumption
<1> SUFFICES ASSUME i < NBuses, j < NDevices, k < NFunctions
             PROVE  /\ \A n \in 0 .. HeaderBytes - 1 : pci_get_data(i, j, k)[n] = <<<<i, j, k>>, n>>
                    /\ \A r \in {r \in 0 .. OffsetSpan - 1 : r % 4 = 0}, n \in 0 .. 3 :
                         pci_read_config_dword(i, j, k, r)[n] = <<<<i, j, k>>, r + n>>
  BY DEF HeaderRead
<1>1. i \in 0 .. NBuses - 1 /\ j \in 0 .. NDevices - 1 /\ k \in 0 .. NFunctions - 1
  BY DEF ScanPlace
<1>2. ASSUME NEW n \in 0 .. HeaderBytes - 1
      PROVE  pci_get_data(i, j, k)[n] = <<<<i, j, k>>, n>>
  <2> DEFINE o == n - (n % 2)
  <2>1. n \in Nat /\ n % 2 \in {0, 1}
    OBVIOUS
  <2>2. o \in 0 .. OffsetSpan - 1 /\ o % 2 = 0 /\ o + (n % 2) = n
    BY <2>1
  <2>3. pci_read_config_word(i, j, k, o) = <<<<<<i, j, k>>, o>>, <<<<i, j, k>>, o + 1>>>>
    <3> HIDE DEF o
    <3> QED
      BY <1>1, <2>2, WordOf
  <2>4. pci_get_data(i, j, k)[n] = pci_read_config_word(i, j, k, o)[(n % 2) + 1]
    BY DEF pci_get_data
  <2>5. CASE n % 2 = 0
    BY <2>1, <2>2, <2>3, <2>4, <2>5
  <2>6. CASE n % 2 = 1
    BY <2>1, <2>2, <2>3, <2>4, <2>6
  <2> QED
    BY <2>1, <2>5, <2>6
<1>3. ASSUME NEW r \in 0 .. OffsetSpan - 1, r % 4 = 0, NEW n \in 0 .. 3
      PROVE  pci_read_config_dword(i, j, k, r)[n] = <<<<i, j, k>>, r + n>>
  <2>1. Dword(Address(i, j, k, r)) = [m \in 0 .. 3 |-> <<<<i, j, k>>, r + m>>]
    BY ONLY <1>1, <1>3, DwordOf
  <2> QED
    BY <2>1 DEF pci_read_config_dword
<1> QED
  BY <1>2, <1>3

\* What the scan tests and hands to a driver is the header of the function its
\* loops stand at.
THEOREM HeadersReadRight == Spec => []HeaderRead
<1>1. IInv => HeaderRead
  BY HeaderIsItsOwn DEF IInv
<1> QED
  BY <1>1, Invariance, PTL
=============================================================================

----------------------------- MODULE PciConfig -----------------------------
(***************************************************************************)
(* Configuration space as src/pci/pci.c reaches it, behind its scan: an    *)
(* address in port 0xCF8, a dword of the function it names in port 0xCFC.  *)
(* A byte in the space of function f at offset n is <<f, n>>, so that what *)
(* is read tells where it came from; the dword that a write changes is the *)
(* set of its bits that are 1.                                             *)
(***************************************************************************)
EXTENDS Pci

CONSTANTS
  OffsetSpan,  \* bytes of a function's space: 256
  HeaderBytes, \* sizeof(pci_t): 64
  ByteBits     \* bits of a byte: 8

ASSUME ConfigAssumption ==
  /\ OffsetSpan \in Nat \ {0} /\ HeaderBytes \in 0 .. OffsetSpan /\ ByteBits \in Nat \ {0}
  /\ OffsetSpan % 4 = 0 /\ HeaderBytes % 2 = 0

\* (1 << 31) | (bus << 16) | (num << 11) | (function << 8) | offset, less its top bit.
Address(bus, num, function, offset) ==
  ((bus * NDevices + num) * NFunctions + function) * OffsetSpan + offset

\* The host bridge (external): which bytes port 0xCFC shows.
Dword(addr) ==
  LET slot == addr \div OffsetSpan
      f == <<(slot \div NFunctions) \div NDevices, (slot \div NFunctions) % NDevices,
             slot % NFunctions>>
      reg == (addr % OffsetSpan) - (addr % 4)
  IN  [n \in 0 .. 3 |-> <<f, reg + n>>]

pci_read_config_dword(bus, num, function, offset) == Dword(Address(bus, num, function, offset))

\* Slip: the upper half is never shifted down.
pci_read_config_word_Lower(bus, num, function, offset) ==
  LET d == Dword(Address(bus, num, function, offset - (offset % 4))) IN <<d[0], d[1]>>

\* offset & 0xfc, and then the half that offset & 2 says.
pci_read_config_word(bus, num, function, offset) ==
  LET d    == Dword(Address(bus, num, function, offset - (offset % 4)))
      half == IF offset % 4 >= 2 THEN 2 ELSE 0
  IN  <<d[half], d[half + 1]>>

\* The words of pci_data, as bytes.
pci_get_data(bus, num, function) ==
  [n \in 0 .. HeaderBytes - 1 |->
     pci_read_config_word(bus, num, function, n - (n % 2))[(n % 2) + 1]]

\* pci_write_config_dword: what register the value goes to, in whose space.
pci_write_config_dword(bus, num, function, offset) == Address(bus, num, function, offset)

Bits == 0 .. ByteBits - 1
Shifted(bits, n) == {b + n : b \in bits} \cap 0 .. 4 * ByteBits - 1

\* The dword that is written back: the mask moves by bits, the value by bytes.
pci_write_config_byte(dword, offset, value) ==
  (dword \ Shifted(Bits, offset % 4)) \cup Shifted(value, (offset % 4) * ByteBits)

----------------------------------------------------------------------------
\* What the scan hands to a driver, and tests, at every place of its loops is
\* the header of the function they stand at, in its order, and a dword is
\* that function's.
HeaderRead ==
  i < NBuses /\ j < NDevices /\ k < NFunctions =>
    /\ \A n \in 0 .. HeaderBytes - 1 : pci_get_data(i, j, k)[n] = <<<<i, j, k>>, n>>
    /\ \A r \in {r \in 0 .. OffsetSpan - 1 : r % 4 = 0}, n \in 0 .. 3 :
         pci_read_config_dword(i, j, k, r)[n] = <<<<i, j, k>>, r + n>>

\* What pci.c:291 says of the write of a byte: the mask clears the byte that will
\* be written and the value goes in its place; so its neighbours keep their bits.
\* Once the scan has launched them, drivers may write to any dword.
ByteReplaced ==
  pc = "done" =>
    \A dword \in SUBSET (0 .. 4 * ByteBits - 1), value \in SUBSET Bits, offset \in 0 .. 3 :
      pci_write_config_byte(dword, offset, value) =
        (dword \ Shifted(Bits, offset * ByteBits)) \cup Shifted(value, offset * ByteBits)
=============================================================================

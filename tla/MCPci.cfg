SPECIFICATION Spec
CONSTANTS
  NSlots = 3
  NBuses = 2
  NDevices = 2
  NFunctions = 2
  ShortSpan = 3
  ByteSpan = 3
  Classes = {"vga", "pit"}
  Registrations <- MCRegistrations
  OffsetSpan = 16
  HeaderBytes = 8
  ByteBits = 2
INVARIANTS ScanCorrect HeaderRead
PROPERTY ScanEnds
CHECK_DEADLOCK FALSE

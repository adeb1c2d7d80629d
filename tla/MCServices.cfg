SPECIFICATION ServicesSpec
CONSTANTS
  SlotFields = 4
  Caps = {0, 1, 2, 5}
  FirstSectors = {0, 3}
  SectorSpan = 4
  Counts = {0, 1, 2, 3}
  CountSpan = 2
  Lengths = {0, 2}
  MaxSpin = 2
  Drivers = {ahci, ata}
  NoDriver = none
  NHandlers = 3
  NDrives = 2
  WordSpan = 16
  MemorySize = 6
  Numbers = {0, 15}
  Bases = {1, 2, 10, 16}
  Fills = {0, 65}
INVARIANTS
  EntriesKept
  WalkMeetsAll
  NothingLeftIssued
  NumbersStand
PROPERTIES
  AnswersItsOwner
  OwnedSlotsKept
  SuccessIsHonest
  ErrorIsFinal
  CallsReturn

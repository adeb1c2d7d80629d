SPECIFICATION FairSpec
CONSTANTS
  Devices = {0, 1, 8}
  Faults = {0, 2, 14, 17}
  CpuErrorCodes = {8, 10, 11, 12, 13, 14, 17}
  CallNumbers = {4, 99}
  StackWords = 36
INVARIANTS
  HandlersReadTheirFrame
  ServiceMatches
  KeyboardHeard
PROPERTIES
  ResumesWhereLeft
  RequestsTaken

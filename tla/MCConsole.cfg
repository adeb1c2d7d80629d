SPECIFICATION FairSpec
CONSTANTS
  BufferSize = 3
  Width = 2
  Height = 3
  PromptLength = 1
  Letters = {"a"}
  OtherKeys = {"enter", "backspace", "caps_lock", "tab", "shift", "ignored"}
  MaxPresses = 5
  WireSize = 1
INVARIANTS ConsoleOwnedOnce LineFaithful OncePerByte
PROPERTIES OnlyDeafnessWedges BytesGetThrough
CHECK_DEADLOCK FALSE

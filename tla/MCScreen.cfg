CONSTANTS
  Width = 2
  Height = 3
  Chars = {"a"}
  Colors = {7, 15}
  vga_color = 15
  CursorSpan = 8
  Puts <- MCPuts
SPECIFICATION Spec
INVARIANT CursorShown
PROPERTIES ShowsText SpillsInFront
CHECK_DEADLOCK FALSE

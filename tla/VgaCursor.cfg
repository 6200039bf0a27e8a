CONSTANTS
  VGA_WIDTH = 3
  VGA_HEIGHT = 2
  TAB = 2
  BYTE = 4
  Glyphs = {"m"}
  Colors = {7, 4}
  Diagnostic <- MCDiagnostic
SPECIFICATION VgaSpec
INVARIANTS CursorFollows

CONSTANTS
  KB_BUF_SIZE = 4
  Codes <- MCCodes
  LSHIFT = "LSHIFT"
  RSHIFT = "RSHIFT"
  EXT = "EXT"
  Chars = {"a", "A"}
  NUL = NUL
  kb_normal <- MCNormal
  kb_shift <- MCShift
  KeyCaps <- MCKeyCaps
  LeftShift = "kL"
  RightShift = "kR"
  MakeBytes <- MCMake
  BreakBytes <- MCBreak
  Plain <- MCPlain
  Shifted <- MCShifted
  MAX_WIRE = 2
SPECIFICATION KeysSpec
INVARIANTS GetSafe ShiftTracks TypedInOrder
PROPERTIES ImplementsFifo

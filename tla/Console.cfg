CONSTANTS
  KB_BUF_SIZE = 4
  Codes <- MCCodes
  LSHIFT = "LSHIFT"
  RSHIFT = "RSHIFT"
  EXT = "EXT"
  Chars = {"a", "b"}
  NUL = NUL
  kb_normal <- MCNormal
  kb_shift <- MCShift
  Lines = {1}
  ApiIrqs = {1}
  BiosPics <- MCBiosPics
  Bytes <- MCBytes
  SpuriousIrqs = TRUE
SPECIFICATION ConsoleSpec
INVARIANTS ByteHasInterrupt
PROPERTIES BytesFetched DrainsWhileTyping

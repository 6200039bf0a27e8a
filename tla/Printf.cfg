CONSTANTS
  INT_BITS = 5
  LONG_BITS = 8
  DIGITS = 3
  Calls <- MCCalls
SPECIFICATION PrintfSpec
INVARIANTS PrintsReference StaysInside

CONSTANTS
  Lines = {1, 5, 12}
  ApiIrqs = {1, 5, 12, 16}
  BiosPics <- MCBiosPics
SPECIFICATION IrqSpec
INVARIANTS IsrClean
PROPERTIES RequestsServed

CONSTANTS
  Size = 4
  Regs <- MCRegs
  Narrow <- MCNarrow
  Programs <- MCPrograms
  Boot = 0
  Data <- MCData
  NoPC = NoPC
SPECIFICATION FairSpec
INVARIANTS
  TypeOK
  ForwardedOperands
  RightPath
PROPERTIES
  ImplementsIsa
  ProgramGoesOn

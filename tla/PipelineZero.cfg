CONSTANTS
  Size = 4
  Regs <- MCRegs
  Narrow <- MCNarrow
  Programs <- MCZeroPrograms
  Boot = 0
  Data <- MCData
  NoPC = NoPC
SPECIFICATION Spec
INVARIANT ZeroRegister

CONSTANTS
  IntMax = 1023
  HeapHeader = 16
  Base = 64
  MaxGroups = 3
  Word = 65536
  Fixed32 = 2
  Fixed64 = 3
  Schema <- MCSchema
  SizeOf <- MCSizeOf
  Inputs <- MCInputs
  Roots = {"Tiny", "Node", "Leaf", "Scalar"}
  HeapSizes <- MCHeapSizes
  MaxDecodes = 1
SPECIFICATION Spec
INVARIANTS TypeOK CountsRespected MemoryErrors DecodesTheMeaning
PROPERTY HeapOnlyGrows
CHECK_DEADLOCK FALSE

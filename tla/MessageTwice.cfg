CONSTANTS
  IntMax = 1023
  HeapHeader = 16
  Base = 64
  MaxGroups = 3
  Word = 65536
  Fixed32 = 2
  Fixed64 = 3
  Schema <- MCSchema
  SizeOf <- MCSizeOf
  Inputs <- PairInputs
  Roots = {"Node", "Leaf"}
  HeapSizes <- PairHeapSizes
  MaxDecodes = 2
SPECIFICATION Spec
INVARIANT DecodesTheMeaning
PROPERTY EveryRunReturns
CHECK_DEADLOCK FALSE

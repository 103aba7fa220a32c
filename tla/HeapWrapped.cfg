CONSTANTS
  IntMax = 1023
  HeapHeader = 16
  Base = 64
  MaxGroups = 3
  Word = 65536
  Fixed32 = 2
  Fixed64 = 3
  Schema <- MCSchema
  SizeOf <- MCSizeOf
  Inputs <- WrapInputs
  Roots = {"Leaf"}
  HeapSizes <- WrapHeapSizes
  MaxDecodes = 1
SPECIFICATION Spec
INVARIANT HeapKept
CHECK_DEADLOCK FALSE

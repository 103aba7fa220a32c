CONSTANTS
  IntMax = 1023
  HeapHeader = 16
  Base = 64
  MaxGroups = 3
  Word = 65536
  Fixed32 = 2
  Fixed64 = 3
  Schema <- MCSchema
  SizeOf <- MCSizeOf
  Inputs <- MCNoInputs
  Roots = {"Inner", "Outer", "Scalar"}
  Sources <- MCSources
  BufferSizes = {0, 1, 8, 16, 200}
  Nesting = 2
  HeapSizes <- MCHeapSizes
  MaxDecodes = 1
SPECIFICATION CSpec
INVARIANTS RoundTrip WholeOrNothing
CHECK_DEADLOCK FALSE

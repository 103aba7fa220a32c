CONSTANTS
  IntMax = 31
  Base = 4
  MaxGroups = 4
  Word = 256
  Fixed32 = 2
  Fixed64 = 4
  BufferSizes = {0, 4, 12}
  Chunks <- MCChunks
  Values = {0, 5}
  FieldNumbers = {1}
  MaxDepth = 2
  MaxAsked = 6
SPECIFICATION Spec
INVARIANTS TypeOK PositionOK OutputIsAsked EncodeResult

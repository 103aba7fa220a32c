CONSTANTS
  IntMax = 127
  HeapHeader = 16
  Workspaces <- MCWorkspaces
  MessageSize = 16
  Fields <- MCFields
  ItemSize <- MCItemSize
  Lengths = {0, 1, 2}
  PayloadSizes = {0, 1, 3}
  MaxBlocks = 5
SPECIFICATION Spec
INVARIANTS TypeOK BlocksDisjoint NoWaste FieldsBacked MessagesAligned
PROPERTY ImplementsArena

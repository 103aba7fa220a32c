CONSTANTS
  IntMax = 15
  Base = 2
  MaxGroups = 2
  Word = 8
  Fixed32 = 1
  Fixed64 = 2
  Inputs = {0, 1, 4}
  Amounts = {0, 1, 2, 14}
  Causes = {1, 3}
  MaxDepth = 3
SPECIFICATION Spec
INVARIANTS TypeOK WindowsOK SlicesNested FirstErrorKept ResultReportsFirstError
PROPERTIES GiveBackNeverOverruns

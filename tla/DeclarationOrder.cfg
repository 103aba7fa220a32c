CONSTANTS
  Characters <- MCCharacters
  Identifiers <- MCIdentifiers
  Texts <- NoTexts
  Files <- SmallFiles
SPECIFICATION Spec
INVARIANT TypesBeforeUses
CHECK_DEADLOCK FALSE

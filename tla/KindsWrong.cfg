CONSTANTS
  Characters <- MCCharacters
  Identifiers <- MCIdentifiers
  Texts <- NoTexts
  Files <- WrongFiles
SPECIFICATION Spec
INVARIANT KindsAreRight
CHECK_DEADLOCK FALSE

CONSTANTS
  Characters <- MCCharacters
  Identifiers <- MCIdentifiers
  Texts <- MCTexts
  Files <- MCFiles
SPECIFICATION Spec
INVARIANTS TypeOK CommentsBlanked KindsAnswered DeclaredFirst TypesDeclaredFirst
CHECK_DEADLOCK FALSE

SPECIFICATION Spec
CONSTANTS
  Chars <- FewChars
  Letters <- FewLetters
  Lengths <- Sizes
  TagNames <- TwoNames
  Attributes <- FewAttributes
  Texts <- FewTexts
INVARIANTS
  TypeOK
  TextMatches
  Closable
  RawValueEnds

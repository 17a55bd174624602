SPECIFICATION Spec
CONSTANTS
  Bits = 4
  MaxExponent = 1
  Texts <- MCTexts
  Delimiters <- MCDelimiters
  Keywords <- MCKeywords
INVARIANTS
  OnceInOrder
  RefusedNeverGiven
  TokensMeanText

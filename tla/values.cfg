CONSTANTS
  Characters <- MCCharacters
  Texts <- MCTexts
  Integers64 <- MCIntegers
  Json <- MCJson
  Half = 8
  Nothing = Nothing
  MaxRounds = 3
  Meaning <- MCMeaning
  One = 16
  Printed = 8
  Doubles <- MCDoubles
  Least <- MCLeast
  Greatest = 320
  Full = 30
  Precise = 32
SPECIFICATION Spec
INVARIANTS LiteralsClose NothingIsLost NumbersFit PathsAreReadable WrittenIsShown

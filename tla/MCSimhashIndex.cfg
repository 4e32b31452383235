SPECIFICATION Spec
CONSTANTS
  Bits <- SixBits
  Parts <- FourParts
  PartOf <- TwoOrOne
  MaxHammingDist = 3
  Texts <- SomeTexts
  MaxStored = 2
INVARIANTS
  FiledEverywhere
PROPERTIES
  ImplementsSeenContent

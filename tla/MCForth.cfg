SPECIFICATION Spec
CONSTANTS
  Tokens <- SomeTokens
  Numerals <- SomeNumerals
  Value <- Values4
  Closing <- Closings
  Doubled <- Twice
  Lines <- SomeLines
  Half = 2
  StackSize = 6
  MaxDepth = 4
  MaxLines = 3
INVARIANTS
  TypeOK
  OneEntryPerName
  NothingSkipped
  NestingBounded
PROPERTY
  ImplementsStackMachine

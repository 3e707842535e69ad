SPECIFICATION Spec
CONSTANTS
  Word <- W
  NoWord = ""
  Program = {"cmd"}
  Token <- SpacedTokens
  Unwritable <- Protected
  MaxTokens = 5
  MaxFd = 10
  Inherited = {4}
INVARIANTS
  RunsWhatWasTyped
  DescriptorsLost

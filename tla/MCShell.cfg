SPECIFICATION Spec
CONSTANTS
  Word <- W
  NoWord = ""
  Program = {"cmd"}
  Token <- MixedTokens
  Unwritable = {}
  MaxTokens = 4
  MaxFd = 8
  Inherited = {4}
INVARIANTS
  TypeOK
  NothingElseClosed
  StdioSound

SPECIFICATION Spec
CONSTANTS
  Word <- W
  NoWord = ""
  Program = {"cmd"}
  Token <- AttachedTokens
  Unwritable = {}
  MaxTokens = 4
  MaxFd = 10
  Inherited = {4}
INVARIANTS
  OnlyNamedFilesWritten

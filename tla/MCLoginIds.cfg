SPECIFICATION Spec
CONSTANTS
  Name <- Names
  Known <- Users
  NoName = ""
  Word = {"root", "ann", "bob", "cy", ""}
  NoFile = "no file"
  Password <- Passwords
  Id = {"0", "1", "2"}
  Root = "0"
  Lines <- OneGroup
  Unended = {"bob"}
  MaxOpen = 4
  PathRoom = 3
INVARIANTS
  ShellHasUsersIds

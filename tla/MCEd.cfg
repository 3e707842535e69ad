SPECIFICATION Spec
CONSTANTS
  Letter = {"a", "b"}
  Newline = "n"
  Nul = "0"
  Texts <- Lines
  Addresses <- Numbers
  INT_MAX = 99
  line_max = 5
  NoLine = NoLine
  Absent = Absent
  Files <- SomeFiles
INVARIANTS
  TypeOK
  LostOnlyWhenFull
PROPERTIES
  ImplementsDocument

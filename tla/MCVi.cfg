SPECIFICATION Spec
CONSTANTS
  Letter = {"a"}
  Space = " "
  Newline = "n"
  Nul = "0"
  NoText = NoText
  Absent = Absent
  Files <- SomeFiles
  MaxY = 3
  Slots = 11
  Width = 12
  MaxPresses = 6
INVARIANTS
  TypeOK
  ArraySound
  SavingIsStable
  CursorOnLine
  SeenIsSaved
PROPERTY
  NothingTypedOver
\* The user stops after MaxPresses keys.
CHECK_DEADLOCK FALSE

SPECIFICATION Spec
CONSTANTS
  b0 = b0
  b1 = b1
  Register = 2
  Wrap = 256
  Top = 28
  Sizes = {2, 3}
  Lengths = {0, 2}
  Byte = {b0, b1}
  Zero = b0
CHECK_DEADLOCK FALSE
INVARIANTS
  TypeOK
  BlocksApart
  HeapIntact
PROPERTIES
  ImplementsStore

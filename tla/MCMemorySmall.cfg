SPECIFICATION Spec
CONSTANTS
  b0 = b0
  b1 = b1
  Register = 4
  Wrap = 256
  Top = 60
  Sizes = {1, 2}
  Lengths = {1, 2}
  Byte = {b0, b1}
  Zero = b0
CHECK_DEADLOCK FALSE
INVARIANTS
  FillsAreHarmless

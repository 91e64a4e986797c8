\* Sizes on either side of the sign bit.
CONSTANTS
  Byte = 4
  Types = {0, 3}
  Sizes = {0, 1, 2, 7, 8, 14, 15, 16}
  MaxSent = 2
SPECIFICATION Spec
INVARIANT
  AnySizePrompt
CHECK_DEADLOCK FALSE

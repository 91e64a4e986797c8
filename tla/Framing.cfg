\* The handler may refuse a message, and nothing is read after that: it may stop.
CONSTANTS
  Byte = 4
  Types = {0, 3}
  Sizes = {0, 1, 2, 7, 8, 14, 15, 16}
  MaxSent = 2
SPECIFICATION Spec
INVARIANTS
  InOrder
  Prompt
CHECK_DEADLOCK FALSE

SPECIFICATION ControlSpec
CONSTANTS
  Operators = {o1}
  EventBuffer = 1
  MaxLines = 1
CHECK_DEADLOCK FALSE
INVARIANT CaseInsensitive

SPECIFICATION Spec
CONSTANTS
  Chars = {"%", "d", "{", "}", "m", "x"}
  Keys = {"m"}
  MaxLen = 5
INVARIANTS
  OnlyTheTailIsLost
  ErrorIffMalformed
PROPERTY Terminates
CHECK_DEADLOCK FALSE

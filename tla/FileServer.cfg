CONSTANTS
  c1 = c1
  c2 = c2
  x = x
  y = y
  NONE = NONE
  GARBLED = GARBLED
  EMPTY = EMPTY
  Clients = {c1, c2}
  Lines <- SomeLines
  Mine <- OnlyFirst
  Theirs = y
  Big = {x}
SPECIFICATION Spec
INVARIANTS TypeOK InStep ServerSurvives 
PROPERTIES Answered LeftBehind
CHECK_DEADLOCK FALSE

\* A stream with as many entries as it looks at sees no news any more.
SPECIFICATION Spec
CONSTANTS
  Size = 3
  Client = {c1}
  StreamLimit = 2
  MaxEntries = 4
PROPERTIES
  StreamKeepsUp
CHECK_DEADLOCK FALSE

SPECIFICATION Spec
CONSTANTS
  Pins = {4, 5, 6, 12}
  clockPin = 5
  dataPin = 6
  PowerUp <- MCPowerUp
INVARIANTS
  TypeOK
  OthersKept
PROPERTIES
  ImplementsSwdLine

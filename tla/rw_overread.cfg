SPECIFICATION Spec
CONSTANTS
  Cmds = {c1, c2, h}
  Headless = {h}
  None = None
  Acks = {1, 4}
  Size = 3
  MaxCount = 2
  MaxRead = 3
  UintMod = 8
PROPERTIES
  OnlyAvailableData

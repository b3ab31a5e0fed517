SPECIFICATION ModSpec
CONSTANTS
  Procs = {p1, p2}
  Blocks = {b1, b2, b3, b4}
  NULL = NULL
  Boards = {"raspi4", "raspi5"}
SYMMETRY Symmetry
INVARIANTS
  HardwareSelected

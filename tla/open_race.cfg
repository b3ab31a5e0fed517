SPECIFICATION Spec
CONSTANTS
  Procs = {p1, p2}
  Blocks = {b1, b2, b3, b4}
  NULL = NULL
SYMMETRY Symmetry
INVARIANTS
  AlreadyLocked

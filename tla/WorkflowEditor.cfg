CONSTANTS
  Nodes = {a, b}
  None = None
  MaxPast = 1
  MaxEdits = 2
  MaxSends = 2
SYMMETRY NodeSymmetry
SPECIFICATION Spec
CHECK_DEADLOCK FALSE
INVARIANTS EdgesArrive SettledIsStored TimelineMoves

SPECIFICATION Spec
CONSTANTS
  Controllers = {c1, c2, c3}
  None = None
  MaxTimers = 4
SYMMETRY Symmetry
INVARIANTS
  OneOpaque
  Replaced
  NotLeftFaded

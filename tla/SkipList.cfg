SPECIFICATION Spec
CONSTANTS
  N = 3
  MaxHeight = 3
  Readers = {r1}
  Writer = w
  EntrySizes = {3, 7}
  kBlockSize = 16
  PointerSize = 1
  Align = 2
INVARIANTS
  ListInv
  ArenaSound
PROPERTY ImplementsOrderedSet

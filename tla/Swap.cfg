\* Four pages and three frames: the fourth page evicts one, the page that comes back another.
CONSTANTS
  Frame = {f1, f2, f3}
  NPAGE = 4
  max_swap_offset = 7
  TOP = 8
  Reswap = FALSE
  NULL = NULL
SYMMETRY Symmetry
SPECIFICATION Spec
INVARIANTS
  ReadsLastWrite
  FramesAccounted
  VisitedTellsAge
PROPERTIES
  EvictsOldest

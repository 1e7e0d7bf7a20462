\* Pages and frames as in Swap.cfg, and more bits of page->visited than three frames need.
CONSTANTS
  Frame = {f1, f2, f3}
  NPAGE = 4
  max_swap_offset = 7
  TOP = 128
  Reswap = FALSE
  NULL = NULL
SYMMETRY Symmetry
SPECIFICATION UseSpec
INVARIANTS
  VictimLeastRecentlyUsed

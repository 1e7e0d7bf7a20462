\* Four pages and three frames; swap_out may write a frame to the slot of another page.
CONSTANTS
  Frame = {f1, f2, f3}
  NPAGE = 4
  max_swap_offset = 7
  TOP = 128
  Reswap = TRUE
  NULL = NULL
SYMMETRY Symmetry
SPECIFICATION Spec
INVARIANTS
  ReadsLastWrite

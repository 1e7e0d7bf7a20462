\* Three callers and three pages of eight units: small objects of two, three, five and
\* seven units with the head, and large ones of one and of two pages.
CONSTANTS
  Client = {c1, c2, c3}
  Size = {1, 3, 8, 11, 16, 32}
  SLOB_UNIT = 2
  PGSIZE = 16
  BIGBLOCK = 3
  npage = 3
  NULL = NULL
SPECIFICATION Spec
SYMMETRY Symmetry
INVARIANTS
  FreeCircle
  UnitsConserved
PROPERTIES
  ImplementsHeap

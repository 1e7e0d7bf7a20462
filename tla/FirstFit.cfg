\* Four callers and eight pages: a block is freed between two free ones, below all of
\* them, and next to the highest one.  The highest page is never given out.
CONSTANTS
  c1 = c1
  c2 = c2
  c3 = c3
  c4 = c4
  Client <- FourClients
  npage = 8
  HEAD = HEAD
  NULL = NULL
  Reserve = 1
SPECIFICATION Spec
SYMMETRY Symmetry
INVARIANTS
  TypeOK
  FreeList
  PagesConserved
  Coalesced
  FreeAsserts
PROPERTIES
  BestRun

\* All the pages can be given out.
CONSTANTS
  c1 = c1
  c2 = c2
  c3 = c3
  c4 = c4
  Client <- ThreeClients
  npage = 4
  HEAD = HEAD
  NULL = NULL
  Reserve = 0
SPECIFICATION Spec
INVARIANTS
  FreeAsserts

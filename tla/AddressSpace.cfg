\* Two processes besides initproc, memory for two copies of the largest program and no more.
CONSTANTS
  p1 = p1
  p2 = p2
  X = X
  Proc <- TwoProcs
  initproc = initproc
  NULL = NULL
  BOOT = BOOT
  TABLE = TABLE
  ZERO = ZERO
  Value <- Values
  Program <- Programs
  npage = 18
  NPTEENTRY = 2
  NPDEENTRY = 2
  NROOT = 2
  STACK = 6
  LOADED = 1
  Written = {0, 7}
SPECIFICATION Spec
SYMMETRY Symmetry
INVARIANTS
  TypeOK
  PagesUsedOnce
  SatpCurrent
PROPERTIES
  ImplementsPrivate

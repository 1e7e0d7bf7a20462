\* Four processes besides idleproc and initproc, all of which can be alive at once:
\* sibling lists of up to four, and every way a fork can fail.
CONSTANTS
  p2 = p2
  p3 = p3
  p4 = p4
  p5 = p5
  idleproc = idleproc
  initproc = initproc
  NULL = NULL
  User <- FourUsers
  Killable <- FourUsers
  MAX_PROCESS = 6
  NoMem = {"page", "kstack"}
SPECIFICATION Spec
SYMMETRY Symmetry
INVARIANTS
  TypeOK
  ProcessTable
  SiblingLists
  ParentAlive
  NoLostWakeup
  WakeupAssert
  OnlyRunnableRuns
  SomeoneRuns
  InitMainAsserts
PROPERTIES
  ImplementsTree

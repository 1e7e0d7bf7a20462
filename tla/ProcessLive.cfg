\* Three processes besides idleproc and initproc; two of them are killed, and so is
\* initproc.  No symmetry: it is unsound for liveness.
CONSTANTS
  p2 = p2
  p3 = p3
  p4 = p4
  p5 = p5
  idleproc = idleproc
  initproc = initproc
  NULL = NULL
  User <- ThreeUsers
  Killable = {p2, p3, initproc}
  MAX_PROCESS = 5
  NoMem = {"page"}
SPECIFICATION FairSpec
PROPERTIES
  InitCollects
  NoStarvation
  KilledWaiterDies
  KilledProgramStops

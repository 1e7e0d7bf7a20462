\* init_main's first process, its child, and the kill of one by the other.
CONSTANTS
  p2 = p2
  p3 = p3
  p4 = p4
  p5 = p5
  idleproc = idleproc
  initproc = initproc
  NULL = NULL
  User <- TwoUsers
  Killable <- TwoUsers
  MAX_PROCESS = 4
  NoMem = {}
SPECIFICATION FairSpec
PROPERTIES
  KillLeadsToExit

\* As few pids as the static assertion allows, so that the scan wraps and collides.
CONSTANTS
  MAX_PROCESS = 7
  MAX_PID = 9
SPECIFICATION FairSpec
INVARIANTS
  TypeOK
  UniquePids
  SafeGap
PROPERTIES
  GetPidReturns
  ImplementsPool

\* Five pages of two bytes, four of them for users: up to four areas, adjacent or not, and
\* ranges that start and end within pages.
CONSTANTS
  PGSIZE = 2
  USERBASE = 2
  USERTOP = 10
  Flags = {{"VM_READ"}, {"VM_READ", "VM_WRITE"}, {"VM_READ", "VM_WRITE", "VM_STACK"}}
  NULL = NULL
SPECIFICATION Spec
INVARIANTS
  Sorted
  FindsTheArea
  ChecksEveryByte
  MapsFreePages

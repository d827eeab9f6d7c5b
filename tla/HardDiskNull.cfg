CONSTANTS
  MAX_ERRORS = 3
  SECTORS = 2
  NR_HD = 1
  LastBlocks = {FALSE}
  MaxRequests = 1
  MaxSpurious = 0
SPECIFICATION Spec
INVARIANT CurrentExists
CHECK_DEADLOCK FALSE

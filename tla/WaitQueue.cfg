CONSTANTS
  Tasks = {t1, t2, t3}
  NULL = NULL
  Idle = Idle
  IrqsOff = TRUE
SPECIFICATION FairSpec
INVARIANTS ChainIntact NoLostWakeup
PROPERTIES ImplementsWaitStack WakeupsArrive

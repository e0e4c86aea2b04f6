CONSTANTS
  Threads = {t1, t2, t3}
  MaxIds = 2
  MaxVms = 2
SPECIFICATION Spec
INVARIANTS TypeOK InterfaceOn KernelAgrees
CHECK_DEADLOCK FALSE

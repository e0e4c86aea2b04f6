\* One vCPU, two threads that kick it.
CONSTANTS
  Vcpus = {v1}
  Kickers = {k1, k2}
  MaxCalls = 2
  MaxInsn = 2
SPECIFICATION Spec
INVARIANTS TypeOK NoLostKick ExactlyOnce MaskedTimerTold PromptCancel CancelBudget
PROPERTIES WorkCollected ImplementsPromise

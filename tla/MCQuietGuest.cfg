CONSTANTS
  Vcpus = {v1}
  Kickers = {k1}
  MaxCalls = 1
  MaxInsn = 1
SPECIFICATION QuietSpec
PROPERTIES WorkCollected

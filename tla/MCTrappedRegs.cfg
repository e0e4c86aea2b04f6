SPECIFICATION Spec
CONSTANTS
  Values = {0, 1}
  GicNames = {"ICC_SRE_EL1", "ICC_PMR_EL1"}
  AppleNames = {"EHID4"}
  MaxGic = 1
  MaxApple = 1
  MaxCtrr = 1
  ExitBlocks = {{"GXF"}, {"SYSREGS", "CONTROLS"}}
  MaxWrites = 2
  Devices = {d1}
INVARIANTS TypeOK ReadsBack HardwareCurrent

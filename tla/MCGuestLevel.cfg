CONSTANT
  Devices = {d1, d2}
SPECIFICATION Spec
INVARIANTS TypeOK HypervisorHasNv NoIllegalReturn ControlsReachHardware

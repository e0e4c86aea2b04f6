CONSTANTS
  Vcpus = {v1}
  Bands = {1, 2, 3}
  Self = v1
  Sptm = 1
  Timers = {p}
  TimerAsIrq = FALSE
SPECIFICATION Safe
PROPERTIES NothingCarriesTheLevel

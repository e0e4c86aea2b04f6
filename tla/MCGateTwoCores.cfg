CONSTANTS
  Vcpus = {v1, v2}
  Bands = {1, 2, 3}
  Self = v1
  Sptm = 1
  Timers = {}
  TimerAsIrq = FALSE
SPECIFICATION Safe
INVARIANTS BandTypeOK LowestKnown
PROPERTIES BandNeverRises NeverTakenInMonitor LevelDownAtGenter

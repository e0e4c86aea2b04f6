SPECIFICATION Spec
CONSTANTS
  Regions <- MCRegions
  Buffers = {b1, b2}
  NumNested = 1
  MaxMaps = 2
  Word = 8
  Queries <- MCQueries
  MaxFaults = 1
SYMMETRY Symmetry
INVARIANTS TypeOK RecordedIsMapped MappedIsRecorded NestedFollowMain
PROPERTY QuietLookupRight
CHECK_DEADLOCK FALSE

SPECIFICATION Spec
CONSTANTS
  Spis = {s1, s2}
  Ppi = ppi
  NumLrs = 2
SYMMETRY Symmetry
INVARIANTS
  TypeOK
  QueuedOnce
  QueuedUntilTaken
  LoweredTakenBack
  WrittenIsMarked

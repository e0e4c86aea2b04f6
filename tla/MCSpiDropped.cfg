SPECIFICATION Spec
CONSTANTS
  Spis = {s1}
  Ppi = ppi
  NumLrs = 2
INVARIANTS
  SomewhereToDeliver

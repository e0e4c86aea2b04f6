SPECIFICATION Spec
CONSTANTS
  OutBits = 4
  MidBits = 5
  BigBits = 6
  DescBits = 3
  VaWidth = 10
  MaxVaBits = 9
  PaBits = 9
  MinVaBits = 5
  Words = {0, 8, 16, 24}
  Outputs = {16, 80}
  Ttbr = 513
INVARIANT WalkAgrees

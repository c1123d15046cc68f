\* A fleet of makers on one contract, or of two aggressor profiles on two,
\* over two quarter boundaries.
SPECIFICATION FairSpec
CONSTANTS
  A = A
  Area = {A}
  Specs <- OneOfTwo
  MaxWindow = 2
  MaxProfiles = 2
  MaxTime = 2
INVARIANTS
  FleetConsistent
PROPERTIES
  RollMovesWindow
  RetiredTasksLeave

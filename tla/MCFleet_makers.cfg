\* Violations: makers that a roll-forward spawns share a seed, and one that read
\* the clock before it got the lock quotes a gated contract (tlc -continue).
SPECIFICATION Spec
CONSTANTS
  A = A
  Area = {A}
  Specs <- MakersOnly
  MaxWindow = 2
  MaxProfiles = 0
  MaxTime = 1
INVARIANTS
  DisjointSeeds
PROPERTIES
  NoQuoteAfterGate

CONSTANTS
  s1 = s1
  s2 = s2
  Node <- Stations
  Tries = 3
  ListSize = 10
  MaxIndex = 2
  MaxCopies = 3
SYMMETRY StationSymmetry
SPECIFICATION Spec
INVARIANTS
  RetransmissionQueued
CHECK_DEADLOCK FALSE

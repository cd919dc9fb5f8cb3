SPECIFICATION Spec
CONSTANTS
  Lattices <- MCLattices
  Text <- MCText
  Entry <- MCEntry
  Given <- MCGiven
  Specs <- MCSpecs
  Width = 4
  Impls = {"static"}
  BeamSize = 2
  GlobalBeams = {0}
  RightChecks = {0}
  RightBeam = 1
INVARIANT NeverOutside
CHECK_DEADLOCK FALSE

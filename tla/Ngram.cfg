SPECIFICATION Spec
CONSTANTS
  Lattices <- MCLattices
  Text <- MCText
  Entry <- MCEntry
  Given <- MCGiven
  Specs <- MCSpecs
  Width = 4
  Impls = {"static", "dynamic"}
  BeamSize = 2
  GlobalBeams = {0, 3}
  RightChecks = {0, 1, 2}
  RightBeam = 1
INVARIANTS ScoresExact PatternsStored AllScored IndicesWritten DefaultInside
PROPERTIES RanksByTotal
CHECK_DEADLOCK FALSE

SPECIFICATION FairSpec
CONSTANTS
  Lattices <- MCLattices
  Scores <- MCScores
  SignBit = 8
  Configs <- MCConfigs
CHECK_DEADLOCK FALSE
INVARIANTS TypeOK BackPointers LiveBeams KnowsItsBeam CoversSentence ScoreIsOfPath
PROPERTIES KeepsPromise EventuallyDone

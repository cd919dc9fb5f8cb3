SPECIFICATION FairSpec
CONSTANTS
  Bytes <- MCBytes
  Classes <- MCClasses
  Dictionary <- MCDictionary
  Figures <- MCFigures
  NumberPrefixes <- MCNumberPrefixes
  NumberInterfixes <- MCNumberInterfixes
  NumberSuffixes <- MCNumberSuffixes
  MaxNumericLength = 4
  Prolonged <- MCProlonged
  ProlongedErow <- MCProlongedErow
  Enlarged <- MCEnlarged
  SmallVowel <- MCSmallVowel
  SmallVowels = {"j"}
  SmallTsu = {"t"}
  Inputs <- MCInputs
  Refused <- MCRefused
  Size <- MCSize
  Stage1 <- JumandicStage1
  Stage2 <- JumandicStage2
  Spawned <- MCSpawned
  MaxInputs = 2
CHECK_DEADLOCK FALSE
INVARIANTS AlwaysBuilt UnknownRuns NumbersAreWhole NormalizedAreRespellings
PROPERTIES KeepsRequest

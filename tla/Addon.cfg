SPECIFICATION Spec
CONSTANTS
  Paths = {"good", "other", "missing", "broken", "untrained", "fieldless", "featureless"}
  FailsAt <- MCFailsAt
  Sentences <- MCSentences
  Refused <- MCRefused
  TopPath <- MCTopPath
  Garbage <- MCGarbage
  MaxChunk = 2

CHECK_DEADLOCK FALSE
INVARIANTS GuardIsSound NeverReadsOutside AnswersSpellTheSentence
PROPERTY FailedLoadIsFinal

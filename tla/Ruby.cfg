SPECIFICATION Spec
CONSTANTS
  Width <- MCWidth
  Kanji = {"K", "V"}
  SmallYoon = {"y"}
  Katakana = {"H", "M", "c"}
  LongVowel = "c"
  Texts <- MCTexts
CHECK_DEADLOCK FALSE
PROPERTIES ReadingDealtOut OkuriganaSeparated BeatsAreMorae

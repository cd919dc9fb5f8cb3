SPECIFICATION Spec
CONSTANTS
  Width <- MCWidth
  Kanji = {"K", "V"}
  SmallYoon = {"y"}
  Katakana = {"H", "M", "c"}
  LongVowel = "c"
  Texts <- PlainTexts
CHECK_DEADLOCK FALSE
INVARIANT TextKept

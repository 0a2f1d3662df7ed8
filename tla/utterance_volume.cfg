SPECIFICATION Spec
CONSTANTS
  Callers = {"a", "b"}
  Workloads <- MCVolumes
  Languages = {"en", "fr", "ar"}
  NiqqudClasses <- MCClasses
  WindowSize = 4
  MaxLen = 5
  Monophonic <- MCMonophonic
  CharBopomofo <- MCCharBopomofo
  Polyphonic <- MCPolyphonic
  BopomofoToPinyin <- MCBopomofoToPinyin
  Vocabulary <- MCVocabulary
  PhonemeIdMap <- MCPhonemeIdMap
  ToneIdMap <- MCToneIdMap
  KokoroVocab <- MCKokoroVocab
  SampleRate = 1000
  UndefinedShort <- MCUndefinedShort
INVARIANT
  LouderWhenAsked
CHECK_DEADLOCK FALSE

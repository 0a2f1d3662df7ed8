SPECIFICATION Spec
CONSTANTS
  Callers = {"a", "b"}
  Workloads <- MCWorkloads
  Languages = {"en", "fr", "ar"}
  NiqqudClasses <- MCClasses
  WindowSize = 4
  MaxLen = 5
  Monophonic <- MCMonophonic
  CharBopomofo <- MCCharBopomofo
  Polyphonic <- MCPolyphonic
  BopomofoToPinyin <- MCBopomofoToPinyin
  Vocabulary <- MCVocabulary
  PhonemeIdMap <- MCPhonemeIdMap
  ToneIdMap <- MCToneIdMap
  KokoroVocab <- MCKokoroVocab
  SampleRate = 1000
  UndefinedShort <- MCUndefinedShort
INVARIANTS
  LoadedVoiceSpeaks
  HebrewInOrder
  NumbersKeepValue
  AsksForTheCharacter
  LinesInTheirLanguage
  IdsSpellTheSentence
  MutedIsSilent
  FilesKeptApart
  EspeakIsGivenBack
CHECK_DEADLOCK FALSE

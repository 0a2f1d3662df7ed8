------------------------------- MODULE PinyinText -------------------------------
(***************************************************************************)
(* The Chinese front end: sentences, their characters looked up in the     *)
(* dictionaries or asked of the model, and the syllables split.            *)
(***************************************************************************)
EXTENDS ChineseNumbers, QueryWindow

CONSTANTS
  Monophonic,          (* [characters -> bopomofo]                              *)
  CharBopomofo,        (* the same, consulted where Monophonic has no entry     *)
  Polyphonic,          (* [characters -> the bopomofo they may have]            *)
  BopomofoToPinyin,    (* [bopomofo without its tone -> letters]                *)
  Vocabulary           (* the pieces of words that the model's tokenizer knows  *)

Quotes    == {"quote"}
Terminals == {"full stop", "question", "exclamation"}
Passing   == Terminals \cup {".", ",", "?", "!", ":", ";", " "}
Tones     == {Digits[k] : k \in 2..10}

StripQuotationMarks(text) == At(text, LAMBDA i : text[i] \notin Quotes)

(* A terminal ends its sentence and stays in it. *)
SplitIntoSentences(text) ==
  LET AddChar(ss, c) ==
        IF c \in Terminals THEN Append(Front(ss), Append(Last(ss), c)) \o << <<>> >>
                           ELSE Append(Front(ss), Append(Last(ss), c))
      cut == FoldLeft(AddChar, << <<>> >>, text)
  IN IF Last(cut) = <<>> THEN Front(cut) ELSE cut

PinyinSentences(text) ==
  LET cut == SplitIntoSentences(StripQuotationMarks(text))
  IN [k \in DOMAIN cut |-> NormalizeNumbers(cut[k])]

-----------------------------------------------------------------------------
(* Asking the model.                                                       *)
AsciiWord == {"a", "b", "c", "i", "C"} \cup {Digits[k] : k \in DOMAIN Digits}

(* The characters with several readings are Chinese: none of them is part  *)
(* of a run of letters, or has another form in lower case.                 *)
ASSUME PolyphonicAssumption == DOMAIN Polyphonic \cap (AsciiWord \cup {" ", "I dot"}) = {}

(* Upper case letters become lower case, and one becomes two characters. *)
Lowered(chars) ==
  Spread(chars, LAMBDA c : CASE c = "C" -> <<"c">>
                             [] c = "I dot" -> <<"i", "dot above">>
                             [] OTHER -> <<c>>)

(* wordize: a word is a run of letters and digits or one other character. *)
WordStarts(chars) ==
  {i \in DOMAIN chars : chars[i] # " " /\ ~(chars[i] \in AsciiWord /\ i > 1 /\ chars[i - 1] \in AsciiWord)}

WordEnd(chars, i) ==
  IF chars[i] \in AsciiWord THEN PastAll(chars, i, LAMBDA c : c \in AsciiWord) ELSE i + 1

(* The tokenizer: the longest known pieces of a word, or one token for a   *)
(* word that has a part it does not know.  What is left is the lengths.    *)
PieceLengths(word) ==
  LET from[i \in 1..(Len(word) + 1)] ==
        LET known == {n \in 1..(Len(word) + 1 - i) : SubSeq(word, i, i + n - 1) \in Vocabulary}
            n     == CHOOSE m \in known : \A k \in known : k <= m
        IN IF i = Len(word) + 1 THEN <<>>
           ELSE IF known = {} THEN <<0>> ELSE <<n>> \o from[i + n]
  IN IF \E k \in DOMAIN from[1] : from[1][k] = 0 THEN <<Len(word)>> ELSE from[1]

(* tokenize_and_map: each token with the first character it stands for and *)
(* the one after its last.                                                 *)
Tokens(chars) ==
  Spread([i \in DOMAIN chars |-> i],
         LAMBDA i : IF i \notin WordStarts(chars) THEN <<>>
                    ELSE LET lengths == PieceLengths(SubSeq(chars, i, WordEnd(chars, i) - 1))
                             Before(k) == FoldLeft(LAMBDA a, b : a + b, 0, SubSeq(lengths, 1, k - 1))
                         IN [k \in DOMAIN lengths |->
                               [start |-> i + Before(k), end |-> i + Before(k) + lengths[k]]])

(* resolve_polyphonic, up to the call of the model: the tokens it is shown *)
(* and the one it is asked about, with the text they were made of.         *)
Query(chars, i) ==
  LET window   == TruncateWindow(Len(chars), i - 1)
      text     == Lowered(SubSeq(chars, window.start + 1, window.end))
      tokens   == Tokens(text)
      at       == i - window.start
      position == SelectInSeq(tokens, LAMBDA t : t.start <= at /\ at < t.end)
  IN IF position = 0 THEN [error |-> TRUE]
     ELSE [error    |-> FALSE,
           text     |-> text,
           tokens   |-> SubSeq(tokens, TokenStart(Len(tokens), position - 1) + 1,
                                       TokenEnd(Len(tokens), position - 1)),
           position |-> PositionId(Len(tokens), position - 1)]

(* What the model is asked about. *)
AskedFor(query) ==
  LET token == query.tokens[query.position] IN SubSeq(query.text, token.start, token.end - 1)

-----------------------------------------------------------------------------
(* Syllables.                                                              *)
Initials == << <<"z", "h">>, <<"c", "h">>, <<"s", "h">>, <<"b">>, <<"p">>, <<"m">>, <<"f">>, <<"d">>,
               <<"t">>, <<"n">>, <<"l">>, <<"g">>, <<"k">>, <<"h">>, <<"j">>, <<"q">>, <<"x">>, <<"r">>,
               <<"z">>, <<"c">>, <<"s">>, <<"y">>, <<"w">> >>
Letters  == {"a", "b", "c", "d", "e", "f", "g", "h", "i", "j", "k", "l", "m", "n", "o", "p", "q", "r",
             "s", "t", "u", "v", "w", "x", "y", "z"}

Syllable(initial, finale, tone) ==
  [kind |-> "syllable", initial |-> initial, finale |-> finale, tone |-> tone]
Passthrough(chars) == [kind |-> "passthrough", chars |-> chars]

(* Slip: the shorter initials are tried first. *)
SplitInitialFinalToneShortest(pinyin) ==
  LET tone    == Last(pinyin)
      base    == Front(pinyin)
      first   == SelectInSeq(Reverse(Initials), LAMBDA cand : IsPrefix(cand, base))
      initial == IF first = 0 THEN <<>> ELSE Reverse(Initials)[first]
  IN IF base # <<>> /\ tone \in Tones /\ Range(base) \subseteq Letters
       THEN <<Syllable(initial, SubSeq(base, Len(initial) + 1, Len(base)), tone)>> ELSE <<>>

SplitInitialFinalTone(pinyin) ==
  LET tone    == Last(pinyin)
      base    == Front(pinyin)
      first   == SelectInSeq(Initials, LAMBDA cand : IsPrefix(cand, base))
      initial == IF first = 0 THEN <<>> ELSE Initials[first]
  IN IF base # <<>> /\ tone \in Tones /\ Range(base) \subseteq Letters
       THEN <<Syllable(initial, SubSeq(base, Len(initial) + 1, Len(base)), tone)>> ELSE <<>>

(* The pinyin of a reading, with its tone; none if the tone is missing or  *)
(* the dictionary has no such sound.                                       *)
ConvertBopomofoToPinyin(bopomofo) ==
  IF IsDigit(Last(bopomofo)) /\ Front(bopomofo) \in DOMAIN BopomofoToPinyin
    THEN Append(BopomofoToPinyin[Front(bopomofo)], Last(bopomofo)) ELSE <<>>

(* What has no pinyin is passed on as its bopomofo, and what cannot be     *)
(* split as its pinyin.                                                    *)
TokenOf(bopomofo) ==
  LET pinyin == ConvertBopomofoToPinyin(bopomofo)
      split  == SplitInitialFinalTone(pinyin)
  IN IF pinyin = <<>> THEN Passthrough(bopomofo)
     ELSE IF split = <<>> THEN Passthrough(pinyin) ELSE split[1]

(* phonemize_sentence_tokens, with the reading the model answers for the   *)
(* polyphonic character at each place.                                     *)
CharTokens(c, answer) ==
  IF c \in DOMAIN Polyphonic         THEN <<TokenOf(answer)>>
  ELSE IF c \in DOMAIN Monophonic    THEN <<TokenOf(Monophonic[c])>>
  ELSE IF c \in DOMAIN CharBopomofo  THEN <<TokenOf(CharBopomofo[c])>>
  ELSE IF c \in Passing              THEN <<Passthrough(<<c>>)>> ELSE <<>>

SentenceTokens(chars, answers) ==
  FlattenSeq([i \in DOMAIN chars |-> CharTokens(chars[i], answers[i])])

(* flatten_token: a syllable without an initial has a mark in its place. *)
FlattenToken(token) ==
  IF token.kind = "passthrough" THEN token.chars
  ELSE (IF token.initial = <<>> THEN <<"no initial">> ELSE token.initial)
       \o token.finale \o <<token.tone>>

PinyinPhonemes(tokens) == Spread(tokens, FlattenToken)
=============================================================================

------------------------------- MODULE PhonemeIds -------------------------------
(***************************************************************************)
(* Phonemes turned into the ids a network reads, for the three backends.   *)
(* Phonemes are sequences of characters; an id map gives for each entry,   *)
(* one or more characters, its ids, of which the first is used.            *)
(***************************************************************************)
EXTENDS PinyinText

CONSTANTS PhonemeIdMap,     (* of Piper and MeloTTS: [entries -> Seq(ids)]   *)
          ToneIdMap,        (* of MeloTTS: [tones -> ids]                    *)
          KokoroVocab       (* of Kokoro: [entries -> ids]                   *)

(* The ids of s, ids[e] being those of an entry e: of what starts at the   *)
(* cursor the longest entry is taken, and a character that starts none is  *)
(* passed over.                                                            *)
SpelledOut(ids, s) ==
  LET Widths(i) == {n \in 1..(Len(s) + 1 - i) : SubSeq(s, i, i + n - 1) \in DOMAIN ids}
      Widest(i) == CHOOSE n \in Widths(i) : \A m \in Widths(i) : m <= n
  IN Rewritten(s, LAMBDA i :
       IF Widths(i) = {} THEN [words |-> <<>>, next |-> i + 1]
       ELSE [words |-> ids[SubSeq(s, i, i + Widest(i) - 1)], next |-> i + Widest(i)])

(* An entry without ids is as good as none. *)
Entries == {e \in DOMAIN PhonemeIdMap : PhonemeIdMap[e] # <<>>}
FirstId(e) == PhonemeIdMap[e][1]

-----------------------------------------------------------------------------
(* Piper.                                                                  *)
PadId == FirstId(<<"_">>)
BosId == FirstId(<<"^">>)
EosId == FirstId(<<"$">>)

(* A voice without an id for one of the three cannot speak at all. *)
HasMetaIds == {<<"_">>, <<"^">>, <<"$">>} \subseteq Entries

PiperIds(phonemes) ==
  <<BosId>> \o SpelledOut([e \in Entries |-> <<FirstId(e), PadId>>], phonemes) \o <<EosId>>

-----------------------------------------------------------------------------
(* MeloTTS: a sentence is a line for each phone, with its tone.            *)
Pair(phone, tone) == [phone |-> phone, tone |-> tone]
BlankTone == IF "_" \in DOMAIN ToneIdMap THEN ToneIdMap["_"] ELSE 0

PinyinPairs(tokens) ==
  Spread(tokens, LAMBDA t :
    IF t.kind = "passthrough" THEN <<Pair(t.chars, "_")>>
    ELSE (IF t.initial = <<>> THEN <<>> ELSE <<Pair(t.initial, t.tone)>>)
         \o <<Pair(t.finale, t.tone)>>)

EspeakPairs(phonemes) == <<Pair(phonemes, "_")>>

PairLines(pairs) ==
  Joined([k \in DOMAIN pairs |-> pairs[k].phone \o <<":", pairs[k].tone>>], <<"\n">>)

(* The last colon of a line divides it.  A line without one has no tone. *)
PairsOf(phonemes) ==
  LET lines == NonEmpty(Pieces(phonemes, {"\n"}))
      OfLine(line) ==
        LET colon == SelectLastInSeq(line, LAMBDA c : c = ":")
        IN IF colon = 0 THEN Pair(line, "_")
           ELSE Pair(SubSeq(line, 1, colon - 1),
                     IF colon = Len(line) THEN "" ELSE line[colon + 1])
  IN [k \in DOMAIN lines |-> OfLine(lines[k])]

(* Each phone's id and tone, with a blank after it. *)
MeloIds(pairs) ==
  LET blank    == [phone |-> IF <<"_">> \in Entries THEN PadId ELSE 0, tone |-> BlankTone]
      Tone(t)  == IF t \in DOMAIN ToneIdMap THEN ToneIdMap[t] ELSE BlankTone
      Ids(p)   == SpelledOut([e \in Entries |->
                               <<[phone |-> FirstId(e), tone |-> Tone(p.tone)], blank>>], p.phone)
      Ends(e)  == <<[phone |-> IF e \in Entries THEN FirstId(e) ELSE 0, tone |-> BlankTone]>>
  IN Ends(<<"^">>) \o Spread(pairs, Ids) \o Ends(<<"$">>)

-----------------------------------------------------------------------------
(* Kokoro.                                                                 *)
(* The rules are applied one after the other, each to the whole sentence.  *)
Substitutions ==
  << << <<"a", "I">>, <<"I1">> >>, << <<"d", "Z">>, <<"dZ">> >>, << <<"@r">>, <<"@", "R">> >>,
     << <<"r">>, <<"R">> >>, << <<"x">>, <<"k">> >>, << <<"n", "syllabic">>, <<"@n", "n">> >>,
     << <<"palatal">>, <<>> >>, << <<":">>, <<>> >> >>

Substituted(s, rule) ==
  LET n == Len(rule[1])
  IN Rewritten(s, LAMBDA i :
       IF i + n - 1 <= Len(s) /\ SubSeq(s, i, i + n - 1) = rule[1]
         THEN [words |-> rule[2], next |-> i + n] ELSE Kept(s, i))

EspeakIpaToKokoro(ipa) == FoldLeft(Substituted, ipa, Substitutions)

KokoroIds(phonemes) ==
  LET ends == <<KokoroVocab[<<"$">>]>>
  IN ends \o SpelledOut([e \in DOMAIN KokoroVocab |-> <<KokoroVocab[e]>>], phonemes) \o ends
=============================================================================

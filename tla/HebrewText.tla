------------------------------- MODULE HebrewText -------------------------------
(***************************************************************************)
(* The Hebrew front end: Nakdimon's niqqud laid over the letters of a      *)
(* text, and pointed words turned into IPA.  A text is a sequence of       *)
(* letters, points and spaces; a glyph is a letter with its points; a      *)
(* sound is one symbol, an affricate too, whose tie bar the code removes.  *)
(* Cantillation marks, which go first, are left out.                       *)
(***************************************************************************)
EXTENDS TextPieces

Glottal == "?"
Stress  == "'"
Schwa   == "@"
Geresh  == "geresh"

Plain ==
  [alef |-> Glottal, ayin |-> Glottal, bet |-> "v", gimel |-> "g", dalet |-> "d", he |-> "h",
   vav |-> "v", zayin |-> "z", het |-> "x", tet |-> "t", yod |-> "j", kaf |-> "x",
   lamed |-> "l", mem |-> "m", nun |-> "n", samekh |-> "s", pe |-> "f", tsadi |-> "ts",
   qof |-> "k", resh |-> "r", shin |-> "sh", tav |-> "t"]
Plosive   == [bet |-> "b", kaf |-> "k", pe |-> "p"]
FinalForm == [kaf_final |-> "kaf", mem_final |-> "mem", nun_final |-> "nun",
              pe_final |-> "pe", tsadi_final |-> "tsadi"]
Digraph   == {"gimel", "zayin", "tsadi"}

(* map_basic_vowel looks for these points in this order. *)
VowelOrder ==
  <<[points |-> {"qamats_qatan"}, vowel |-> "o"], [points |-> {"qubutz"}, vowel |-> "u"],
    [points |-> {"hiriq"}, vowel |-> "i"], [points |-> {"tsere", "segol"}, vowel |-> "e"],
    [points |-> {"patah", "qamats", "hataf_patah"}, vowel |-> "a"],
    [points |-> {"hataf_segol"}, vowel |-> "e"], [points |-> {"hataf_qamats"}, vowel |-> "o"]>>

VowelPoints == UNION {VowelOrder[i].points : i \in DOMAIN VowelOrder} \cup {"sheva", "holam"}
Points      == VowelPoints \cup {"holam_haser", "dagesh", "shin_dot", "sin_dot", "rafe"}
Niqqud      == Points \cup {"maqaf"}       (* U+05B0 to U+05C7 *)
Vowels      == {VowelOrder[i].vowel : i \in DOMAIN VowelOrder} \cup {Schwa}

-----------------------------------------------------------------------------
(* Nakdimon.                                                               *)
CanSin    == {"shin"}
CanDagesh == (DOMAIN Plain \ {"alef", "het", "ayin", "resh"}) \cup {"kaf_final", "pe_final"}
CanNiqqud == DOMAIN Plain \cup {"kaf_final", "nun_final"}

AlreadyDiacritized(text) == \E i \in DOMAIN text : text[i] \in Niqqud
RemoveNiqqud(text)       == Without(text, Niqqud)

(* What the model may answer for a letter.  RAFE is the class of no point. *)
NakdimonClasses ==
  [niqqud : (VowelPoints \ {"qamats_qatan"}) \cup {"holam_haser", "dagesh", "rafe"},
   sin    : {"rafe", "shin_dot", "sin_dot"},
   dagesh : BOOLEAN]

(* It is shown one id for each letter, and answers for each.               *)
NakdimonAnswers(letters, classes) == [DOMAIN letters -> classes]

(* A letter takes those of its classes that it can carry.                  *)
MergeDiacritics(letters, classes) ==
  LET Given(i) == At(<<"dagesh", classes[i].sin, classes[i].niqqud>>,
                     LAMBDA k : CASE k = 1 -> letters[i] \in CanDagesh /\ classes[i].dagesh
                                  [] k = 2 -> letters[i] \in CanSin
                                  [] k = 3 -> letters[i] \in CanNiqqud)
  IN Without(FlattenSeq([i \in DOMAIN letters |-> <<letters[i]>> \o Given(i)]), {"rafe"})

-----------------------------------------------------------------------------
(* Words.                                                                  *)
Glyph(base) == [base |-> base, marks |-> {}]

(* A point before any letter has nothing to stand on and is dropped. *)
IterGlyphs(word) ==
  FoldLeft(LAMBDA gs, c :
             CASE c \in Points /\ gs = <<>> -> gs
               [] c \in Points /\ gs # <<>> ->
                    Append(Front(gs), [Last(gs) EXCEPT !.marks = @ \cup {c}])
               [] OTHER -> Append(gs, Glyph(c)),
           <<>>, word)

(* A letter and its geresh become a placeholder, which no rule below reads *)
(* as a sound.                                                             *)
ApplyGereshDigraphs(gs) ==
  LET Takes(i) == i < Len(gs) /\ gs[i].base \in Digraph /\ gs[i + 1].base = Geresh
  IN FlattenSeq([i \in DOMAIN gs |->
       CASE Takes(i)                   -> <<Glyph("digraph")>>
         [] ~Takes(i) /\ i > 1 /\ Takes(i - 1) -> <<>>
         [] OTHER                      -> <<gs[i]>>])

MapConsonant(g, final) ==
  LET b      == IF g.base \in DOMAIN FinalForm THEN FinalForm[g.base] ELSE g.base
      dagesh == "dagesh" \in g.marks
  IN CASE b = "he" /\ final /\ ~dagesh                                    -> <<>>
       [] b = "shin" /\ g.marks \cap {"shin_dot", "sin_dot"} = {"sin_dot"} -> <<"s">>
       [] b \in DOMAIN Plosive /\ dagesh                                  -> <<Plosive[b]>>
       [] OTHER -> IF b \in DOMAIN Plain THEN <<Plain[b]>> ELSE <<>>

MapBasicVowel(g) ==
  LET k == SelectInSeq(VowelOrder, LAMBDA v : v.points \cap g.marks # {})
  IN CASE k > 0                            -> <<VowelOrder[k].vowel>>
       [] k = 0 /\ "sheva" \in g.marks     -> <<Schwa>>
       [] k = 0 /\ "sheva" \notin g.marks  -> <<>>

IsShuruk(g) == g.base = "vav" /\ "dagesh" \in g.marks /\ g.marks \cap VowelPoints = {}

IsHolamMale(g) == g.base = "vav" /\ "holam" \in g.marks /\ "dagesh" \notin g.marks

(* Glyph i is a bare yod that only lengthens the hiriq before it. *)
AfterHiriq(gs, i) ==
  /\ i > 1 /\ "hiriq" \in gs[i - 1].marks
  /\ gs[i].base = "yod" /\ gs[i].marks \cap VowelPoints = {}

Nucleus(gs, i) ==
  LET g == gs[i]
  IN CASE IsShuruk(g) -> <<"u">>
       [] i < Len(gs) /\ AfterHiriq(gs, i + 1) -> <<"i">>
       [] IsHolamMale(g) /\ ~(i < Len(gs) /\ AfterHiriq(gs, i + 1)) -> <<"o">>
       [] OTHER -> MapBasicVowel(g)

(* The vav of a shuruk or of a holam male is no consonant, and an alef or  *)
(* ayin is heard only where it carries no vowel of its own.                *)
Onset(gs, i) ==
  LET g == gs[i]
      c == MapConsonant(g, i = Len(gs))
  IN IF \/ IsShuruk(g)
        \/ IsHolamMale(g) /\ ~(i < Len(gs) /\ AfterHiriq(gs, i + 1))
        \/ c = <<Glottal>> /\ Nucleus(gs, i) # <<>>
       THEN <<>> ELSE c

(* Consonants are gathered until a vowel or a sheva makes a segment of     *)
(* them, and those that are left over close the last one.                  *)
WordToSegments(gs) ==
  LET AddGlyph(st, i) ==
        LET onset == st.onset \o Onset(gs, i)
        IN IF AfterHiriq(gs, i) THEN st
           ELSE IF Nucleus(gs, i) = <<>> THEN [st EXCEPT !.onset = onset]
           ELSE [onset |-> <<>>,
                 segs  |-> Append(st.segs, [onset  |-> onset, nucleus |-> Nucleus(gs, i)[1],
                                            coda   |-> <<>>,
                                            dagesh |-> "dagesh" \in gs[i].marks])]
      end == FoldLeftDomain(AddGlyph, [onset |-> <<>>, segs |-> <<>>], gs)
  IN IF end.segs = <<>> THEN <<>>
     ELSE Append(Front(end.segs), [Last(end.segs) EXCEPT !.coda = end.onset])

(* Slip: the consonant of a silent sheva is lost. *)
ResolveShevaLosing(segs) ==
  LET AddSegment(st, s) ==
        IF s.nucleus # Schwa THEN [merged |-> Append(st.merged, s), silenced |-> FALSE]
        ELSE IF st.merged = <<>> \/ s.dagesh \/ st.silenced
          THEN [merged |-> Append(st.merged, [s EXCEPT !.nucleus = "e"]), silenced |-> FALSE]
          ELSE [merged |-> st.merged, silenced |-> TRUE]
  IN FoldLeft(AddSegment, [merged |-> <<>>, silenced |-> FALSE], segs).merged

(* A sheva is heard at the start of a word, under a dagesh and after a     *)
(* silent one.  A silent one gives its consonant to the syllable before,   *)
(* and what followed it at the end of the word is lost with it.            *)
ResolveSheva(segs) ==
  LET AddSegment(st, s) ==
        IF s.nucleus # Schwa THEN [merged |-> Append(st.merged, s), silenced |-> FALSE]
        ELSE IF st.merged = <<>> \/ s.dagesh \/ st.silenced
          THEN [merged |-> Append(st.merged, [s EXCEPT !.nucleus = "e"]), silenced |-> FALSE]
          ELSE [merged   |-> Append(Front(st.merged),
                                    [Last(st.merged) EXCEPT !.coda = @ \o s.onset]),
                silenced |-> TRUE]
  IN FoldLeft(AddSegment, [merged |-> <<>>, silenced |-> FALSE], segs).merged

StressIndex(segs) ==
  IF Len(segs) = 2 /\ segs[2].coda # <<>> THEN 1 ELSE Len(segs)

SyllabifyToIpa(segs) ==
  FlattenSeq([i \in DOMAIN segs |->
    segs[i].onset \o (IF i = StressIndex(segs) THEN <<Stress>> ELSE <<>>)
                  \o <<segs[i].nucleus>> \o segs[i].coda])

(* A glottal stop is realised only before a vowel, stressed or not. *)
StripUnrealizedGlottalStops(ipa) ==
  LET After(i) == IF i < Len(ipa) /\ ipa[i + 1] = Stress THEN i + 2 ELSE i + 1
  IN At(ipa, LAMBDA i : ipa[i] = Glottal => After(i) <= Len(ipa) /\ ipa[After(i)] \in Vowels)

WordGlyphs(word) == ApplyGereshDigraphs(IterGlyphs(word))

HebrewWordToIpa(word) ==
  StripUnrealizedGlottalStops(SyllabifyToIpa(ResolveSheva(WordToSegments(WordGlyphs(word)))))

HebrewWords(text) == NonEmpty(Pieces(text, {" "}))

HebrewToIpa(text) ==
  LET words == HebrewWords(text)
  IN Joined([i \in DOMAIN words |-> HebrewWordToIpa(words[i])], <<" ">>)

(* text_to_hebrew_phonemes, with what the model answers for the letters. *)
HebrewSentences(text, classes) ==
  LET letters == RemoveNiqqud(text)
      ipa == HebrewToIpa(IF AlreadyDiacritized(text) THEN text
                                                     ELSE MergeDiacritics(letters, classes))
  IN IF ipa = <<>> THEN <<>> ELSE <<ipa>>

-----------------------------------------------------------------------------
(* What a word says, letter by letter: no syllables, and so no moving of   *)
(* consonants between them.                                                *)
Nuclei(gs) == {i \in DOMAIN gs : ~AfterHiriq(gs, i) /\ Nucleus(gs, i) # <<>>}

(* Whether the last vowel or sheva up to each letter is a silent sheva. *)
Silent(gs) ==
  LET silent[i \in 0..Len(gs)] ==
        IF i \notin Nuclei(gs) THEN i > 0 /\ silent[i - 1]
        ELSE /\ Nucleus(gs, i) = <<Schwa>> /\ "dagesh" \notin gs[i].marks
             /\ (\E j \in Nuclei(gs) : j < i) /\ ~silent[i - 1]
  IN silent

(* The letters that are pronounced at all: not those after the last vowel  *)
(* or sheva of a word, when that is silent: these the code loses.          *)
Pronounced(gs) ==
  {i \in DOMAIN gs : /\ ~AfterHiriq(gs, i)
                     /\ \/ \E j \in Nuclei(gs) : i <= j
                        \/ Nuclei(gs) # {} /\ ~Silent(gs)[i]}

Voiced(gs, i) ==
  CASE i \in Nuclei(gs) /\ Silent(gs)[i] -> <<>>
    [] i \in Nuclei(gs) /\ ~Silent(gs)[i] /\ Nucleus(gs, i) = <<Schwa>> -> <<"e">>
    [] OTHER -> Nucleus(gs, i)

LetterByLetter(gs) ==
  FlattenSeq([i \in DOMAIN gs |->
    IF i \in Pronounced(gs) THEN Without(Onset(gs, i), {Glottal}) \o Voiced(gs, i) ELSE <<>>])
=============================================================================

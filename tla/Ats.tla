-------------------------------- MODULE Ats --------------------------------
(***************************************************************************)
(* The scoring of a resume against a posting (core/ats) and what is        *)
(* suggested to improve it.  A text is a sequence of terms, in lower case: *)
(* the words and phrases the tables know.  Scores are in ten-thousandths,  *)
(* rounded down where the code rounds.                                     *)
(*                                                                         *)
(* A posting is [words, required, preferred, keywords, phrases]: its text, *)
(* the skills it lists, how often each keyword occurs, its noun phrases.   *)
(***************************************************************************)
EXTENDS Integers, Sequences, FiniteSets, Sums, SequencesExt, FiniteSetsExt

CONSTANTS Variations,     \* skill -> the terms that stand for it, itself one
          Bounded,        \* terms that begin and end with a word character
          FuzzyPairs,     \* sets {a, b} of terms at least 85 % alike
          SimilarPairs,   \* the same at 80 %
          FrequencyWeight,\* times -> 1 + ln(1 + times), in hundredths
          IndustryTerms,  \* terms whose presence makes them phrases of a posting
          Industries,     \* sequence of [name, weights : term -> hundredths]
          SeniorityTerms, \* sequence of [level, terms], in the code's order
          Responsibilities,
          ShortText       \* terms of a text of 150 words

\* No term stands for two skills.
ASSUME AtsAssumption ==
  /\ IsFiniteSet(DOMAIN Variations)
  /\ \A s \in DOMAIN Variations : s \in Variations[s]
  /\ \A s, t \in DOMAIN Variations : s # t => Variations[s] \cap Variations[t] = {}
  /\ \A n \in DOMAIN FrequencyWeight : FrequencyWeight[n] \in Nat \ {0}

Full == 10000
Least(a, b) == IF a < b THEN a ELSE b
Share(part, whole) == (Full * part) \div whole
In(text) == Range(text)

----------------------------------------------------------------------------
\* Skills.

NormalizeSkill(term) ==
  IF \E s \in DOMAIN Variations : term \in Variations[s]
  THEN CHOOSE s \in DOMAIN Variations : term \in Variations[s] ELSE term

\* A term is looked for between word boundaries, which "c++" standing alone,
\* "c#" and ".net" do not have.
ExtractSkills(text) ==
  {s \in DOMAIN Variations : Variations[s] \cap Bounded \cap In(text) # {}}

HasSkill(skills, required) ==
  \E s \in skills :
    \/ NormalizeSkill(s) = NormalizeSkill(required)
    \/ {NormalizeSkill(s), NormalizeSkill(required)} \in FuzzyPairs

FindSimilarSkills(skill) ==
  {s \in DOMAIN Variations \ {NormalizeSkill(skill)} : {NormalizeSkill(skill), s} \in SimilarPairs}

Missing(skills, wanted) ==
  LET lacking[n \in 0..Len(wanted)] ==
        IF n = 0 THEN <<>>
        ELSE IF HasSkill(skills, wanted[n]) THEN lacking[n - 1]
        ELSE Append(lacking[n - 1], wanted[n])
  IN  lacking[Len(wanted)]

SkillShare(skills, wanted) ==
  Share(Len(wanted) - Len(Missing(skills, wanted)), IF wanted = <<>> THEN 1 ELSE Len(wanted))

SkillScore(skills, required, preferred) ==
  CASE required = <<>> /\ preferred = <<>> -> Full \div 2
    [] required # <<>> /\ preferred # <<>> ->
         (7 * SkillShare(skills, required) + 3 * SkillShare(skills, preferred)) \div 10
    [] required # <<>> /\ preferred = <<>> -> SkillShare(skills, required)
    [] OTHER -> SkillShare(skills, preferred)

----------------------------------------------------------------------------
\* Education.

Levels == << [word |-> "high school", rank |-> 1], [word |-> "associate", rank |-> 2],
             [word |-> "bachelor", rank |-> 3], [word |-> "master", rank |-> 4],
             [word |-> "phd", rank |-> 5], [word |-> "doctorate", rank |-> 5] >>

\* The first level the text names; an abbreviation names none.
EducationRank(text) ==
  LET named == {k \in DOMAIN Levels : Levels[k].word \in text}
  IN  IF named = {} THEN 0 ELSE Levels[Min(named)].rank

\* The letters of an abbreviation are found inside words, too: a term of the
\* posting stands for any text that contains it.
Patterns == << {"bachelor", "bs", "ba"}, {"master", "ms", "ma"}, {"phd", "doctorate"},
               {"associate", "as"}, {"high school", "ged", "diploma"} >>

ExtractEducationRequirement(words) ==
  LET hits == {k \in DOMAIN Patterns : Patterns[k] \cap In(words) # {}}
  IN  IF hits = {} THEN ""
      ELSE SelectSeq(words, LAMBDA w : w \in Patterns[Min(hits)])[1]

EducationScore(degrees, words) ==
  LET required == ExtractEducationRequirement(words)
      best     == Max({0} \cup {EducationRank({d}) : d \in degrees})
      needed   == EducationRank({required})
  IN  IF required = "" THEN Full \div 2
      ELSE IF best >= needed THEN Full
      ELSE IF best > 0 THEN Share(best, needed) ELSE Full \div 5

----------------------------------------------------------------------------
\* Experience: entries of [years, title, text], the last two sets of terms.

KeyResponsibilities(words) == Responsibilities \cap In(words)

\* The level most of whose terms the posting names, the first of equals.
DetectSeniority(words) ==
  LET Count(k) == Cardinality(SeniorityTerms[k].terms \cap In(words))
      top == Max({Count(k) : k \in DOMAIN SeniorityTerms})
  IN  IF top = 0 THEN "mid"
      ELSE SeniorityTerms[Min({k \in DOMAIN SeniorityTerms : Count(k) = top})].level

\* The first level any title names; the years decide only if no title does.
InferSeniority(entries, years) ==
  LET titles == UNION {e.title : e \in In(entries)}
      named  == {k \in DOMAIN SeniorityTerms : SeniorityTerms[k].terms \cap titles # {}}
  IN  CASE named # {} -> SeniorityTerms[Min(named)].level
        [] named = {} /\ years >= 10 -> "staff"
        [] named = {} /\ years \in 5..9 -> "senior"
        [] named = {} /\ years \in 2..4 -> "mid"
        [] OTHER -> "entry"

SeniorityAlignment(candidate, required) ==
  LET At(level) == CHOOSE k \in 1..5 :
                     <<"entry", "mid", "senior", "staff", "management">>[k] = level
      gap == IF At(candidate) > At(required) THEN At(candidate) - At(required)
             ELSE At(required) - At(candidate)
  IN  CASE gap = 0 -> Full [] gap = 1 -> 7500 [] gap = 2 -> 4000 [] OTHER -> 1500

ResponsibilityScore(entries, words) ==
  LET key == KeyResponsibilities(words)
  IN  IF key = {} THEN Full \div 2
      ELSE Share(Cardinality(key \cap UNION {e.text \cup e.title : e \in In(entries)}),
                 Cardinality(key))

ExperienceScore(entries, words, requiredYears) ==
  LET years == SumOf([k \in DOMAIN entries |-> entries[k].years])
      target == IF requiredYears > 0 THEN requiredYears ELSE 3
  IN  IF entries = <<>> THEN 0
      ELSE (35 * Least(Share(years, target), Full)
              + 30 * ResponsibilityScore(entries, words)
              + 35 * SeniorityAlignment(InferSeniority(entries, years),
                                        DetectSeniority(words))) \div 100

----------------------------------------------------------------------------
\* Keywords.

TfidfOverlap(text, keywords) ==
  LET order == SetToSeq(DOMAIN keywords)
      WeightOf(ks) == SumOf([k \in DOMAIN order |->
                        IF order[k] \in ks THEN FrequencyWeight[keywords[order[k]]] ELSE 0])
  IN  Share(WeightOf(In(text)), WeightOf(DOMAIN keywords))

PhraseMatchScore(text, posting) ==
  LET phrases == posting.phrases \cup (IndustryTerms \cap In(posting.words))
  IN  IF phrases = {} THEN 0 ELSE Share(Cardinality(phrases \cap In(text)), Cardinality(phrases))

\* The similarity of the two texts is the language model's (spaCy): it depends
\* on both, and may fall as the text grows.
KeywordScore(text, posting, similarity) ==
  IF text = <<>> \/ posting.words = <<>> \/ DOMAIN posting.keywords = {} THEN 0
  ELSE Least((4 * TfidfOverlap(text, posting.keywords) + 3 * similarity
                + 3 * PhraseMatchScore(text, posting)) \div 10, Full)

----------------------------------------------------------------------------
\* The score.

OverallScore(skill, experience, education, keyword) ==
  Least((4 * skill + 3 * experience + 2 * education + keyword) \div 10, Full)

ScorerSuggestions(s) ==
  LET gaps == (IF s.missing # <<>> THEN <<[say |-> "add required", what |-> s.missing]>> ELSE <<>>)
           \o (IF Len(s.missingPreferred) > 2
               THEN <<[say |-> "consider preferred", what |-> s.missingPreferred]>> ELSE <<>>)
           \o (IF s.keyword < 4000 THEN <<[say |-> "mirror terminology", what |-> <<>>]>> ELSE <<>>)
           \o (IF s.experience < 5000 THEN <<[say |-> "strengthen", what |-> <<>>]>> ELSE <<>>)
           \o (IF s.education < 5000 THEN <<[say |-> "certify", what |-> <<>>]>> ELSE <<>>)
  IN  IF gaps = <<>> /\ s.skill >= 8000 /\ s.keyword >= 6000
      THEN <<[say |-> "well aligned", what |-> <<>>]>> ELSE gaps

ScoreOf(candidate, posting, similarity) ==
  LET skill == SkillScore(candidate.skills, posting.required, posting.preferred)
      experience == ExperienceScore(candidate.experience, posting.words, posting.years)
      education  == EducationScore(candidate.degrees, posting.words)
      keyword    == KeywordScore(candidate.text, posting, similarity)
  IN  [overall |-> OverallScore(skill, experience, education, keyword),
       skill |-> skill, experience |-> experience, education |-> education,
       keyword |-> keyword,
       missing |-> Missing(candidate.skills, posting.required),
       missingPreferred |-> IF posting.required = <<>> /\ posting.preferred = <<>> THEN <<>>
                            ELSE Missing(candidate.skills, posting.preferred)]

\* The service knows the resume's text only: no entries and no degrees.
CandidateOf(text) == [text |-> text, skills |-> ExtractSkills(text), experience |-> <<>>,
                      degrees |-> {}]

NoScoring == [overall |-> 0, skill |-> 0, experience |-> 0, education |-> 0, keyword |-> 0,
              missing |-> <<"no parsed text">>, missingPreferred |-> <<>>]

\* Mutant of FallbackScore: a skill the posting does not name counts against the resume.
FallbackScoreOfUnion(text, posting) ==
  LET own    == ExtractSkills(text)
      wanted == ExtractSkills(posting.words)
      skill  == IF wanted = {} THEN Full \div 2
                ELSE Share(Cardinality(own \cap wanted), Cardinality(own \cup wanted))
      words  == In(posting.words)
      keyword == IF words = {} THEN 0
                 ELSE Share(Cardinality(words \cap In(text)), Cardinality(words))
  IN  [overall |-> (skill + keyword) \div 2, skill |-> skill, experience |-> 0,
       education |-> 0, keyword |-> keyword, missing |-> SetToSeq(wanted \ own),
       missingPreferred |-> <<>>]

\* Without the language model: the skills the posting's text names, and its words.
FallbackScore(text, posting) ==
  LET own    == ExtractSkills(text)
      wanted == ExtractSkills(posting.words)
      skill  == IF wanted = {} THEN Full \div 2
                ELSE Share(Cardinality(own \cap wanted), Cardinality(wanted))
      words  == In(posting.words)
      keyword == IF words = {} THEN 0
                 ELSE Share(Cardinality(words \cap In(text)), Cardinality(words))
  IN  [overall |-> (skill + keyword) \div 2, skill |-> skill, experience |-> 0,
       education |-> 0, keyword |-> keyword, missing |-> SetToSeq(wanted \ own),
       missingPreferred |-> <<>>]

FallbackSuggestions(s) ==
  (IF s.missing = <<>> THEN <<>> ELSE <<[say |-> "add", what |-> s.missing]>>)
  \o (IF s.keyword < 4000 THEN <<[say |-> "mirror", what |-> <<>>]>> ELSE <<>>)

\* score_resume: the engine, unless there is no text or the engine fails.
ScoreResume(text, posting, engine, similarity) ==
  CASE text = <<>> -> NoScoring
    [] text # <<>> /\ engine -> ScoreOf(CandidateOf(text), posting, similarity)
    [] OTHER -> FallbackScore(text, posting)

\* What it suggests along with the score.
Suggestions(score, text, engine) ==
  CASE text = <<>> -> <<[say |-> "upload again", what |-> <<>>]>>
    [] text # <<>> /\ engine -> ScorerSuggestions(score)
    [] OTHER -> FallbackSuggestions(score)

----------------------------------------------------------------------------
\* Suggestions of the optimizer.

\* The industry whose weighted keywords the posting names most, at 1.5 and more.
DetectIndustry(words) ==
  LET Weight(k) == FoldSet(LAMBDA t, n : n + Industries[k].weights[t], 0,
                           DOMAIN Industries[k].weights \cap In(words))
      top == Max({0} \cup {Weight(k) : k \in DOMAIN Industries})
  IN  IF top < 150 THEN 0 ELSE Min({k \in DOMAIN Industries : Weight(k) = top})

\* Its keywords that the resume lacks, the weightiest first.
MissingKeywords(text, k) ==
  LET weights == Industries[k].weights
  IN  SetToSortSeq(DOMAIN weights \ In(text), LAMBDA a, b : weights[a] > weights[b])

SkillGapSuggestions(s) ==
  (IF s.missing = <<>> THEN <<>> ELSE <<[say |-> "critical", what |-> s.missing]>>)
  \o FlattenSeq([k \in 1..Least(3, Len(s.missing)) |->
       IF FindSimilarSkills(s.missing[k]) = {} THEN <<>>
       ELSE <<[say |-> "equivalent", what |-> <<s.missing[k]>>]>>])

FormatSuggestions(text) ==
  LET absent == {h \in {"experience", "education", "skills"} : h \notin In(text)}
  IN  (IF Len(text) < ShortText THEN <<[say |-> "short", what |-> <<>>]>> ELSE <<>>)
      \o (IF absent = {} THEN <<>> ELSE <<[say |-> "add sections", what |-> SetToSeq(absent)]>>)

\* What the scorer had suggested is carried over unless it is there already.
SuggestImprovements(s, scorerSuggestions, text, posting) ==
  LET k == DetectIndustry(posting.words)
      own == SkillGapSuggestions(s)
          \o (IF k = 0 \/ MissingKeywords(text, k) = <<>> THEN <<>>
              ELSE <<[say |-> "industry", what |-> MissingKeywords(text, k)]>>)
          \o (IF s.keyword < 3000 THEN <<[say |-> "low overlap", what |-> <<>>]>> ELSE <<>>)
          \o (IF s.experience < 5000 THEN <<[say |-> "emphasize", what |-> <<>>]>> ELSE <<>>)
          \o (IF s.education < 5000 THEN <<[say |-> "consider courses", what |-> <<>>]>> ELSE <<>>)
          \o FormatSuggestions(text)
  IN  own \o SelectSeq(scorerSuggestions, LAMBDA x : x \notin Range(own))
=============================================================================

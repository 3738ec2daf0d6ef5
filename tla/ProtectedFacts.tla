--------------------------- MODULE ProtectedFacts ---------------------------
(***************************************************************************)
(* The names a generated text may not change (services/package_facts.py)   *)
(* and the findings of the model's review that deterministic facts         *)
(* overrule.                                                               *)
(*                                                                         *)
(* A text and a canonical name are sequences of words.  Folded gives the   *)
(* word without its casing, and Alike holds the pairs of folded words that *)
(* are a letter or two apart; a ratio is the share of equal words and      *)
(* counts a drifted word for nine tenths.                                  *)
(***************************************************************************)
EXTENDS Integers, Sequences, SequencesExt, FiniteSetsExt

CONSTANTS Folded,  \* [Vocabulary -> folded words]
          Alike,   \* sets of two folded words
          Tiny,    \* the canonicals of fewer than 4 characters
          Small    \* the canonicals of fewer than 6

Vocabulary == DOMAIN Folded

Fold(words) == [k \in DOMAIN words |-> Folded[words[k]]]

Span(text, at, width) == SubSeq(text, at, at + width - 1)

Starts(text, width) == 1..(Len(text) - width + 1)

Occurrences(text, canonical) ==
  {at \in Starts(text, Len(canonical)) : Span(text, at, Len(canonical)) = canonical}

Mentions(text, canonical) == Occurrences(text, canonical) # {}

\* SequenceMatcher.ratio of two word sequences of one width, in hundredths
Ratio(s, t) ==
  LET f == Fold(s)
      g == Fold(t)
      drifted == {k \in DOMAIN s : f[k] # g[k]}
  IN  IF \E k \in drifted : {f[k], g[k]} \notin Alike THEN 0
      ELSE 100 - (10 * Cardinality(drifted)) \div Len(s)

NearRatio == 86

NoVariant == [at |-> 0, safe |-> FALSE, difference |-> "none", ratio |-> 0]

\* The canonicals that the span could stand for.
Plausible(span, ratio, canonicals) ==
  {other \in canonicals : /\ Len(other) = Len(span)
                          /\ Ratio(span, other) >= NearRatio
                          /\ Ratio(span, other) >= ratio - 5}

\* Mutant of Unambiguous: near is enough, whatever else the span could stand for.
AlwaysUnambiguous(span, ratio, canonicals) == TRUE

Unambiguous(span, ratio, canonicals) == Cardinality(Plausible(span, ratio, canonicals)) = 1

\* The first span that differs in case only, or else the first of the best near ones.
EntityVariant(text, canonical, canonicals) ==
  LET width == Len(canonical)
      ratio(at) == Ratio(Span(text, at, width), canonical)
      recased == {at \in Starts(text, width) : Fold(Span(text, at, width)) = Fold(canonical)}
      near == {at \in Starts(text, width) : ratio(at) >= NearRatio}
      best == {at \in near : \A other \in near : ratio(other) <= ratio(at)}
  IN  IF recased # {}
      THEN LET at == Min(recased)
           IN  IF Span(text, at, width) = canonical \/ canonical \in Tiny THEN NoVariant
               ELSE [at |-> at, safe |-> TRUE, difference |-> "CASING", ratio |-> 100]
      ELSE IF near = {} \/ canonical \in Small THEN NoVariant
      ELSE LET at == Min(best)
           IN  [at |-> at, difference |-> "TYPO", ratio |-> ratio(at),
                safe |-> Unambiguous(Span(text, at, width), ratio(at), canonicals)]

Violations(text, canonicals) ==
  {c \in Range(canonicals) : /\ ~Mentions(text, c)
                             /\ EntityVariant(text, c, Range(canonicals)) # NoVariant}

Replaced(text, at, canonical) ==
  SubSeq(text, 1, at - 1) \o canonical \o SubSeq(text, at + Len(canonical), Len(text))

RestoreOne(text, canonical, canonicals) ==
  LET variant == EntityVariant(text, canonical, canonicals)
  IN  IF Mentions(text, canonical) \/ ~variant.safe THEN text
      ELSE Replaced(text, variant.at, canonical)

\* restore_protected_entities
Restored(text, canonicals) ==
  LET restored[n \in 0..Len(canonicals)] ==
        IF n = 0 THEN text ELSE RestoreOne(restored[n - 1], canonicals[n], Range(canonicals))
  IN  restored[Len(canonicals)]

----------------------------------------------------------------------------
\* Dates: a month is its number since a fixed one; a year, its number.

FutureStatus(token, now) ==
  CASE token.kind = "present" -> "NOT_FUTURE"
    [] token.kind = "year"    -> IF token.at = now \div 12 THEN "UNKNOWN"
                                 ELSE IF token.at > now \div 12 THEN "FUTURE" ELSE "NOT_FUTURE"
    [] token.kind = "month"   -> IF token.at > now THEN "FUTURE" ELSE "NOT_FUTURE"
    [] OTHER                  -> "UNKNOWN"

(***************************************************************************)
(* A finding is overruled when every range it names has ended, or when it  *)
(* doubts a degree and the candidate has any.                              *)
(***************************************************************************)
Overruled(issue, degrees, now) ==
  \/ /\ issue.says_future /\ issue.ends # <<>>
     /\ \A k \in DOMAIN issue.ends : FutureStatus(issue.ends[k], now) = "NOT_FUTURE"
  \/ issue.doubts_degree /\ degrees # {}

============================================================================

----------------------------- MODULE Questions -----------------------------
(***************************************************************************)
(* The question engine (services/question_engine.py): the questions of an  *)
(* application form are answered from the platform, from the profile, from *)
(* stored preferences, by leaving an optional one empty or by the model,   *)
(* and handed to the user otherwise.                                       *)
(*                                                                         *)
(* A question is what its id and its label contain, in the order in which  *)
(* the code looks; an answer is where it comes from.  Confidences are in   *)
(* hundredths.                                                             *)
(***************************************************************************)
EXTENDS Integers, Sequences

\* The profile's fields, each with the word that asks for it and, where the
\* profile has none, the constant that stands in for it.
IdentityFields == <<"first", "last", "email", "phone">>

ProfileBase == "profile-base"

ValidIds(profile) == profile.experience \cup profile.education \cup {ProfileBase}

Resolved(category, answer, confidence, human) ==
  [category |-> category, answer |-> answer, confidence |-> confidence,
   requires_human |-> human, ids |-> {}]

\* The first of the words looked for that occurs in the question.
Asked(q) == LET found == SelectSeq(IdentityFields, LAMBDA w : w \in q.words)
            IN  IF found = <<>> THEN "" ELSE Head(found)

FromProfile(profile, field) ==
  IF field \in profile.identity THEN <<"profile", field>> ELSE <<"placeholder", field>>

IsResumeFile(q) == q.input_type = "file" /\ "resume" \in q.words

NeedsModel(q) ==
  /\ ~q.prefilled /\ q.required
  /\ Asked(q) = "" /\ ~IsResumeFile(q) /\ q.words \cap {"linkedin", "salary"} = {}

\* Whatever is answered without the model.
Deterministic(profile, q) ==
  IF q.prefilled
  THEN Resolved("A_PREFILLED_PLATFORM_PROFILE", <<"platform", "">>, 100, FALSE)
  ELSE IF Asked(q) # ""
  THEN Resolved("B_DETERMINISTIC_CANDIDATE_DATA", FromProfile(profile, Asked(q)), 100, FALSE)
  ELSE IF IsResumeFile(q)
  THEN Resolved("B_DETERMINISTIC_CANDIDATE_DATA", <<"none", "">>, 100, FALSE)
  ELSE IF "linkedin" \in q.words
  THEN Resolved("C_STORED_USER_PREFERENCE", <<"placeholder", "linkedin">>, 100, FALSE)
  ELSE IF "salary" \in q.words
  THEN Resolved("C_STORED_USER_PREFERENCE", FromProfile(profile, "salary"), 100, FALSE)
  ELSE Resolved("F_OPTIONAL_EMPTY", <<"empty", "">>, 100, FALSE)

\* An answer that cites nothing is taken to rest on the profile as a whole.
CitedIds(res) == IF res.ids = {} /\ res.confidence > 0 THEN {ProfileBase} ELSE res.ids

IsValid(profile, res) == CitedIds(res) \subseteq ValidIds(profile)

\* The confidence of a rejected answer is kept when its evidence is unknown and
\* dropped when it is known.
ByModel(profile, res) ==
  IF IsValid(profile, res) /\ res.confidence >= 70
  THEN [Resolved("D_AI_EVIDENCE_GROUNDED", <<"model", "">>, res.confidence, FALSE)
          EXCEPT !.ids = CitedIds(res)]
  ELSE Resolved("E_UNKNOWN_HIGH_RISK", <<"none", "">>,
                IF IsValid(profile, res) THEN 0 ELSE res.confidence, TRUE)

Unanswered == Resolved("E_UNKNOWN_HIGH_RISK", <<"none", "">>, 0, TRUE)
============================================================================

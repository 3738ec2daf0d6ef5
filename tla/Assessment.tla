----------------------------- MODULE Assessment -----------------------------
(***************************************************************************)
(* What the program does with the answers of the language model: a job is  *)
(* matched with the candidate (by a search or by an analysis), a question  *)
(* of a form is resolved, a letter or an email is written, a package is    *)
(* reviewed.  Composes LlmClient, which says what becomes of a call, with  *)
(* the rules of Matching, Questions and ProtectedFacts, which say what     *)
(* becomes of its answer.                                                  *)
(*                                                                         *)
(* The model may answer with any member of Proposals, Replies, Drafts and  *)
(* Findings.  Matches follow one another on one job.                       *)
(***************************************************************************)
EXTENDS LlmClient, Matching, Questions, ProtectedFacts, SequencesExt

CONSTANTS Candidates,    \* profiles, with their evidence
          Postings,      \* jobs without an analysis
          Proposals,     \* [verdict, recommendation, reqs, dimensions]
          Profiles,      \* the question engine's profiles
          FormQuestions, \* [prefilled, required, input_type, words]
          Replies,       \* [ids, confidence]
          Drafts,        \* [words, sane]: email texts, and whether they pass
                         \* the checks on length and repetition
          Names,         \* the protected facts, as a sequence of canonicals
          Findings,      \* sets of [severity, says_future, ends, doubts_degree]
          Degrees, Now,  \* the candidate's degrees, the current month
          MaxTasks       \* bound: matches of one job

\* Confidences are in hundredths.
ASSUME AssessmentAssumption ==
  /\ \A r \in Replies : r.confidence \in Int
  /\ \A p \in Proposals : IsAnalysis(p.reqs)
  /\ \A p \in Postings : IsSequence(p.requirements)
  /\ \A d \in Drafts : d.words \in Seq(Vocabulary)
  /\ Names \in Seq(Seq(Vocabulary))

VARIABLES job,     \* the Job row
          task,    \* the operation in progress
          result,  \* what the last operation has returned
          done     \* operations so far

vars == <<llmVars, job, task, result, done>>

NoTask   == [op |-> "none"]
NoResult == [op |-> "none"]

Init ==
  /\ LlmInit
  /\ job \in {[posting |-> p, gcc |-> {}, normalized |-> n, score |-> NoScore] :
                p \in Postings, n \in BOOLEAN}
  /\ task = NoTask /\ result = NoResult /\ done = 0

Over == call.phase \in {"answered", "failed"}

\* The next call of one operation, or none: the client keeps nothing of a call.
Hung == /\ call' = Idle /\ billed' = <<>> /\ usage' = <<>> /\ lost' = 0

Ask(a) == Begin(a) /\ UNCHANGED <<job, task, result, done>>

\* Most operations use LLMClient() or the user's client behind the router.
RouterAsk(bound, keyed) == [user |-> bound, keyed |-> keyed, routed |-> TRUE,
                            heavy |-> TRUE, structured |-> TRUE]

Start(t) ==
  /\ task = NoTask /\ done < MaxTasks /\ result.op \in {"none", "match"}
  /\ task' = t /\ result' = NoResult /\ done' = done + 1
  /\ UNCHANGED <<llmVars, job>>

\* Bound: an operation that does not touch the job is looked at on a fresh one only.
StartApart(t) == done = 0 /\ Start(t)

Finish(r) ==
  /\ task' = NoTask /\ result' = r /\ UNCHANGED done

----------------------------------------------------------------------------
\* Matching.

MatchOps == {"search", "analyse"}

\* search_jobs scores a job that has no score; analyze_job scores it again.
StartMatch(op, c) ==
  /\ op = "search" => job.score = NoScore
  /\ Start([op |-> op, candidate |-> c])

AskMatch(keyed) ==
  /\ task.op \in MatchOps /\ ~Over
  /\ Ask(RouterAsk(task.op = "analyse", keyed /\ task.op = "analyse"))

\* A job counts as normalised whether its normalisation succeeded or not.
Normalised ==
  /\ task.op \in MatchOps /\ Over /\ ~job.normalized
  /\ job' = [job EXCEPT !.normalized = TRUE]
  /\ Hung /\ UNCHANGED <<task, result, done>>

\* _stored_match_score, in hundredths: what is at most 1 is taken to be a share.
Stored(score) == IF score > 1 THEN score ELSE 100 * score

JobView == [gcc |-> job.gcc, requirements |-> job.posting.requirements,
            country |-> job.posting.country, city |-> job.posting.city,
            work_model |-> job.posting.work_model]

(***************************************************************************)
(* A search stores a missing score as zero and the eligibility it has      *)
(* computed in the column eligibility is computed from; an analysis stores *)
(* the score, if there is one.                                             *)
(***************************************************************************)
Kept(match) ==
  IF task.op = "search"
  THEN [job EXCEPT !.gcc = {"is_eligible"},
                   !.score = IF match.score = NoScore THEN 0 ELSE Stored(match.score)]
  ELSE [job EXCEPT !.score = IF match.score = NoScore THEN NoScore ELSE Stored(match.score)]

MatchEnds(match) ==
  /\ job' = Kept(match)
  /\ Finish([op |-> "match", content |-> call.content, match |-> match,
             candidate |-> task.candidate])
  /\ Hung

Matched ==
  /\ task.op \in MatchOps /\ Over /\ job.normalized
  /\ IF call.phase = "failed"
     THEN MatchEnds(MatchFailed(task.candidate, JobView))
     ELSE \E p \in Proposals : MatchEnds(MatchAnswered(task.candidate, JobView, p))

----------------------------------------------------------------------------
\* Questions.

StartQuestion(profile, q) ==
  StartApart([op |-> "question", profile |-> profile, question |-> q])

AnswerEnds(answer) ==
  /\ Finish([op |-> "question", content |-> call.content, answer |-> answer,
             profile |-> task.profile])
  /\ UNCHANGED job

AnsweredAlone ==
  /\ task.op = "question" /\ ~NeedsModel(task.question)
  /\ AnswerEnds(Deterministic(task.profile, task.question))
  /\ UNCHANGED llmVars

AskAnswer ==
  /\ task.op = "question" /\ ~Over /\ NeedsModel(task.question)
  /\ Ask(RouterAsk(FALSE, FALSE))

Answered ==
  /\ task.op = "question" /\ Over /\ Hung
  /\ IF call.phase = "failed" THEN AnswerEnds(Unanswered)
     ELSE \E r \in Replies : AnswerEnds(ByModel(task.profile, r))

----------------------------------------------------------------------------
\* Cover letters and application emails: restored, checked, and asked for a
\* second time at most.

StartText == StartApart([op |-> "text", try |-> 1])

AskText(keyed) ==
  /\ task.op = "text" /\ ~Over
  /\ Begin(RouterAsk(TRUE, keyed))
  /\ result' = NoResult
  /\ UNCHANGED <<job, task, done>>

Text(draft, text, accepted) ==
  [op |-> "text", content |-> call.content, draft |-> draft, text |-> text,
   accepted |-> accepted]

Faultless(draft, text) == draft.sane /\ Violations(text, Names) = {}

Written ==
  /\ task.op = "text" /\ Over /\ Hung /\ UNCHANGED job
  /\ IF call.phase = "failed" THEN Finish(Text(<<>>, <<>>, FALSE))
     ELSE \E d \in Drafts :
            LET text == Restored(d.words, Names)
                kept == Text(d.words, text, Faultless(d, text))
            IN  IF kept.accepted \/ task.try = 2 THEN Finish(kept)
                ELSE /\ task' = [task EXCEPT !.try = 2]
                     /\ result' = kept /\ UNCHANGED done

----------------------------------------------------------------------------
\* The review of a package: what the code has found itself, and the model's view.

StartReview(found) == StartApart([op |-> "review", found |-> found])

AskReview(keyed) == task.op = "review" /\ ~Over /\ Ask(RouterAsk(TRUE, keyed))

\* A warning without a finding is a pass; then the findings decide, a warning
\* over a verdict of the model that was worse, too.
QAVerdictOf(verdict, severities) ==
  IF "blocker" \in severities THEN "BLOCKED"
  ELSE IF "warning" \in severities THEN "WARNING"
  ELSE IF verdict = "WARNING" THEN "PASS" ELSE verdict

ReviewEnds(verdict, severities) ==
  Finish([op |-> "review", content |-> call.content, found |-> task.found,
          severities |-> severities, verdict |-> QAVerdictOf(verdict, severities)])

Reviewed ==
  /\ task.op = "review" /\ Over /\ Hung /\ UNCHANGED job
  /\ IF call.phase = "failed" THEN ReviewEnds("WARNING", task.found \cup {"warning"})
     ELSE \E v \in {"PASS", "WARNING", "BLOCKED"}, issues \in Findings :
            ReviewEnds(v, task.found \cup
                          {i.severity : i \in {j \in issues : ~Overruled(j, Degrees, Now)}})

----------------------------------------------------------------------------
\* Any other use of a client: the extraction of a posting, of a route.

StartOther(a) == StartApart([op |-> "other", ask |-> a])

AskOther == task.op = "other" /\ ~Over /\ Ask(task.ask)

OtherEnds ==
  /\ task.op = "other" /\ Over /\ Hung /\ UNCHANGED job
  /\ Finish([op |-> "other", content |-> call.content])

----------------------------------------------------------------------------
CallStep == LlmStep /\ UNCHANGED <<job, task, result, done>>

Next ==
  \/ \E op \in MatchOps, c \in Candidates : StartMatch(op, c)
  \/ \E keyed \in BOOLEAN : AskMatch(keyed)
  \/ Normalised
  \/ Matched
  \/ \E p \in Profiles, q \in FormQuestions : StartQuestion(p, q)
  \/ AnsweredAlone
  \/ AskAnswer
  \/ Answered
  \/ StartText
  \/ \E keyed \in BOOLEAN : AskText(keyed)
  \/ Written
  \/ \E found \in SUBSET {"warning", "blocker"} : StartReview(found)
  \/ \E keyed \in BOOLEAN : AskReview(keyed)
  \/ Reviewed
  \/ \E a \in Asks : StartOther(a)
  \/ AskOther
  \/ OtherEnds
  \/ CallStep

Spec == Init /\ [][Next]_vars

----------------------------------------------------------------------------
(***************************************************************************)
(* Credit needs evidence of the candidate: whatever the model proposes,    *)
(* cites or leaves out, a requirement earns something only from evidence   *)
(* the candidate has, an analysis covers every requirement of the posting, *)
(* and the sum of the rounded contributions is still a percentage          *)
(* (matching.py:182-311, whose calls go through _ensure_requirement_       *)
(* coverage, finalize_requirement_analysis and score_requirement_analysis).*)
(***************************************************************************)
CreditNeedsEvidence ==
  result.op = "match" =>
    LET m == result.match
        own == {result.candidate.evidence[k].id : k \in DOMAIN result.candidate.evidence}
    IN  /\ \A k \in DOMAIN m.analysis :
             LET a == m.analysis[k]
             IN  a.contribution > 0 => a.req.ids # {} /\ a.req.ids \subseteq own
        /\ m.analysis # <<>> =>
             /\ \A k \in DOMAIN job.posting.requirements :
                  \E i \in DOMAIN m.analysis :
                    m.analysis[i].req.text = job.posting.requirements[k]
             /\ m.score \in 0..100

(***************************************************************************)
(* Every consumer fails closed: unless the model's last answer could be    *)
(* read, after whatever repairs, a match is insufficient data without a    *)
(* score, a question goes to the user, no text is accepted and a review    *)
(* does not pass.  What the model does answer counts only as far as the    *)
(* code can check it: an answer in the user's name rests on evidence of    *)
(* the profile, and a blocker the code has found stays one                 *)
(* (matching.py:377-397, question_engine.py:108-143,                       *)
(* package_generation.py:346-378, 566-595).                                *)
(***************************************************************************)
FailsClosed ==
  /\ result.op = "match" /\ result.content # "good" =>
       result.match.verdict = "INSUFFICIENT_DATA" /\ result.match.score = NoScore
  /\ result.op = "question" /\ result.answer.answer[1] = "model" =>
       /\ result.content = "good"
       /\ result.answer.ids # {}
       /\ result.answer.ids \subseteq ValidIds(result.profile)
  /\ result.op = "text" /\ result.accepted => result.content = "good"
  /\ result.op = "review" =>
       /\ result.verdict = "PASS" => /\ result.content = "good"
                                     /\ result.severities \cap {"warning", "blocker"} = {}
       /\ "blocker" \in result.found => result.verdict = "BLOCKED"

\* Two names are apart when the same place, and only that, can hold either.
Apart(c, d) ==
  /\ Len(c) = Len(d) /\ Fold(c) # Fold(d)
  /\ \A i, k \in DOMAIN c : i # k => /\ Fold(c)[i] # Fold(d)[k]
                                     /\ {Fold(c)[i], Fold(d)[k]} \notin Alike

(***************************************************************************)
(* Restoring one name never rewrites another that the draft has right, as  *)
(* long as the names have the same number of words and cannot overlap: a   *)
(* span that could be either is left alone, so that similar employers are  *)
(* not exchanged in what is kept or sent back for repair                   *)
(* (package_facts.py:280-301, 362-382, package_generation.py:190-200).     *)
(***************************************************************************)
ExactNamesStay ==
  result.op = "text" =>
    \A c \in Range(Names) :
      (Mentions(result.draft, c) /\ \A d \in Range(Names) \ {c} : Apart(c, d))
        => Mentions(result.text, c)
============================================================================

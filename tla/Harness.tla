------------------------------- MODULE Harness -------------------------------
(***************************************************************************)
(* The learning harness (core/harness): an apply run is given the active   *)
(* skills of its site, its trajectory is judged, diagnosed and distilled   *)
(* by a review job, and the verdict scores the skills the run was given.   *)
(* A skill whose score falls to the threshold is retired.                  *)
(*                                                                         *)
(* Several reviews run at once, each in a session of its own, and one      *)
(* action is what happens between two awaits at which another session can  *)
(* come between.  A worker may die at any of them; arq then runs the job   *)
(* again from the beginning.  One site; a skill is its version, which is   *)
(* its place in skills.                                                    *)
(***************************************************************************)
EXTENDS Integers, Sequences, FiniteSets

CONSTANTS Run,        \* apply runs, each with one trajectory and one review job
          Content,    \* what can be distilled
          Clean,      \* the contents that pass the PII gate
          Seeds,      \* skills that are there at the beginning
          Endings,    \* the ways a run can end: its steps, and what it raised
          Limit,      \* skills given to a run
          MaxTries,   \* WorkerSettings.max_tries
          MaxDeaths   \* bound: workers that die

RetireThreshold == -3
VersionRetries == 3

Status == {"ACTIVE", "RETIRED"}
Skill == [content : Content, score : Int, status : Status]

ASSUME ConstantsAssumption ==
  /\ Clean \subseteq Content
  /\ Limit \in Nat /\ MaxTries \in Nat /\ MaxDeaths \in Nat
  /\ Seeds \subseteq Seq(Skill)
  /\ \A s \in Seeds : \A v \in 1..Len(s) :
       s[v].status = "ACTIVE" => s[v].score > RetireThreshold

VARIABLES skills,    \* DomainSkill rows
          runs,      \* the run, its trajectory and the state of its review
          feedback,  \* SkillFeedback rows
          issues,    \* categories with an open SystemIssue
          deaths

vars == <<skills, runs, feedback, issues, deaths>>

Verdicts == {"success", "partial", "failed"}
Categories == {"apply_failure_rate", "queue_depth"}

\* What the signals of a run can show, in the order diagnose() looks.
FailureClasses ==
  <<"timeout", "captcha_wall", "twofa_required", "antibot_block", "rate_limited",
    "session_expired", "loop", "dom_drift", "field_missing", "llm_error",
    "agent_offtrack">>

Signals == {FailureClasses[i] : i \in 1..Len(FailureClasses)}

(***************************************************************************)
(* A step has a key (its URL, action and goal) and an error: "" for none,  *)
(* "other" for a text that says nothing, or the class its words stand for. *)
(* What a run raises is folded in like an error of no step.                *)
(***************************************************************************)
StepsStored == 100
LoopRepeat == 3

Looping(steps) ==
  LET n == IF Len(steps) < StepsStored THEN Len(steps) ELSE StepsStored
  IN  n >= LoopRepeat /\ \A i \in n - LoopRepeat + 1..n : steps[i].key = steps[n].key

Failing(steps) ==
  Len(steps) >= 3 /\ \A i \in Len(steps) - 2..Len(steps) : steps[i].error # ""

\* "rate limit" also counts as an error of the model, which is looked at later.
Words(end) ==
  LET words == {end.steps[i].error : i \in 1..Len(end.steps)} \cup {end.raised}
  IN  words \cup (IF "rate_limited" \in words THEN {"llm_error"} ELSE {})

SignalsOf(end) ==
  (Words(end) \cap Signals)
    \cup (IF Looping(end.steps) THEN {"loop"} ELSE {})
    \cup (IF Failing(end.steps) THEN {"agent_offtrack"} ELSE {})

Classes == Signals \cup {"unknown", "none"}

Diagnose(signals) ==
  LET shown == {i \in 1..Len(FailureClasses) : FailureClasses[i] \in signals}
  IN  IF shown = {} THEN "unknown"
      ELSE FailureClasses[CHOOSE i \in shown : \A j \in shown : i <= j]

\* Where the review of a run stands.  A run that is "lost" has no review any
\* more; what it has committed stays.
Phases == {"new", "queued", "judged", "distilling", "looking", "numbering", "inserting",
           "scoring", "read", "done", "lost"}

\* What the review job holds between two awaits.
NoMemory == [content |-> "none", retries |-> 0, next |-> 0, at |-> 0, score |-> 0]

NewRun == [phase |-> "new", used |-> {}, signals |-> {}, try |-> 0, verdicts |-> <<>>,
           class |-> "none", left |-> {}, mem |-> NoMemory]

Init ==
  /\ skills \in Seeds
  /\ runs = [r \in Run |-> NewRun]
  /\ feedback = {} /\ issues = {} /\ deaths = 0

Active == {v \in DOMAIN skills : skills[v].status = "ACTIVE"}

\* ORDER BY score DESC, version DESC
Before(v, w) == \/ skills[v].score > skills[w].score
                \/ skills[v].score = skills[w].score /\ v > w

Rank(v) == Cardinality({w \in Active : Before(w, v)})

\* load_skills
Loaded == {v \in Active : Rank(v) < Limit}

In(r, phase) == runs[r].phase = phase

Becomes(r, run) == runs' = [runs EXCEPT ![r] = run]

Moves(r, phase) == Becomes(r, [runs[r] EXCEPT !.phase = phase])

\* What a review holds in memory goes with it, and once it scores, what it distilled;
\* its signals are the job's, and go with that.
Forgets(r, phase) ==
  Becomes(r, [runs[r] EXCEPT !.phase = phase, !.mem = NoMemory,
                             !.left = IF phase = "scoring" THEN @ ELSE {},
                             !.signals = IF phase \in {"done", "lost"} THEN {} ELSE @])

\* The run ends, one way or the other; its trajectory and its review job are best effort.
Apply(r, end, recorded) ==
  /\ In(r, "new")
  /\ Becomes(r, [NewRun EXCEPT !.phase = IF recorded THEN "queued" ELSE "lost",
                               !.used = IF recorded THEN Loaded ELSE {},
                               !.signals = IF recorded THEN SignalsOf(end) ELSE {}])
  /\ UNCHANGED <<skills, feedback, issues, deaths>>

----------------------------------------------------------------------------
\* The review.

Judge(r, verdict) ==
  /\ In(r, "queued")
  /\ Becomes(r, [runs[r] EXCEPT !.phase = "judged", !.verdicts = Append(@, verdict),
                                !.try = @ + 1, !.left = runs[r].used])
  /\ UNCHANGED <<skills, feedback, issues, deaths>>

LastVerdict(r) == runs[r].verdicts[Len(runs[r].verdicts)]

RecordDiagnosis(r) ==
  /\ In(r, "judged")
  /\ Becomes(r, [runs[r] EXCEPT !.phase = "distilling",
                   !.class = IF LastVerdict(r) = "success" THEN @
                             ELSE Diagnose(runs[r].signals)])
  /\ UNCHANGED <<skills, feedback, issues, deaths>>

\* An error of the model ends the review: arq does not repeat a job that has raised.
ModelFails(r) ==
  /\ runs[r].phase \in {"queued", "distilling"}
  /\ Forgets(r, "lost")
  /\ UNCHANGED <<skills, feedback, issues, deaths>>

NothingToSave(r) ==
  /\ In(r, "distilling") /\ Moves(r, "scoring")
  /\ UNCHANGED <<skills, feedback, issues, deaths>>

Distil(r, content) ==
  /\ In(r, "distilling")
  /\ Becomes(r, [runs[r] EXCEPT !.phase = IF content \in Clean THEN "looking" ELSE "scoring",
                                !.mem.content = IF content \in Clean THEN content ELSE @])
  /\ UNCHANGED <<skills, feedback, issues, deaths>>

Duplicates(content) == {v \in Active : skills[v].content = content}

\* scalar_one_or_none: two rows of one content end this and every later review of it.
LookForDuplicate(r) ==
  LET found == Cardinality(Duplicates(runs[r].mem.content))
  IN  /\ In(r, "looking")
      /\ IF found = 0 THEN Moves(r, "numbering")
         ELSE Forgets(r, IF found = 1 THEN "scoring" ELSE "lost")
      /\ UNCHANGED <<skills, feedback, issues, deaths>>

NumberVersion(r) ==
  /\ In(r, "numbering")
  /\ Becomes(r, [runs[r] EXCEPT !.phase = "inserting", !.mem.next = Len(skills) + 1])
  /\ UNCHANGED <<skills, feedback, issues, deaths>>

NewSkill(r) == [content |-> runs[r].mem.content, score |-> 0, status |-> "ACTIVE"]

\* A rollback before has expired the trajectory: the review ends at its next use.
InsertSkill(r) ==
  /\ In(r, "inserting") /\ runs[r].mem.next = Len(skills) + 1
  /\ skills' = Append(skills, NewSkill(r))
  /\ Forgets(r, IF runs[r].mem.retries = 0 THEN "scoring" ELSE "lost")
  /\ UNCHANGED <<feedback, issues, deaths>>

\* uq_domain_skill_version
InsertRefused(r) ==
  /\ In(r, "inserting") /\ runs[r].mem.next # Len(skills) + 1
  /\ IF runs[r].mem.retries + 1 < VersionRetries
     THEN Becomes(r, [runs[r] EXCEPT !.phase = "numbering", !.mem.retries = @ + 1, !.mem.next = 0])
     ELSE Forgets(r, "lost")
  /\ UNCHANGED <<skills, feedback, issues, deaths>>

----------------------------------------------------------------------------
\* Scoring the skills the run was given.  The code goes by their rank when they
\* were loaded; the order matters to no property, and here it is any.

ReadSkill(r, v) ==
  /\ In(r, "scoring") /\ v \in runs[r].left
  /\ Becomes(r, [runs[r] EXCEPT !.phase = "read", !.mem.at = v,
                                !.mem.score = skills[v].score])
  /\ UNCHANGED <<skills, feedback, issues, deaths>>

\* Mutant of Delta: a partial success is no failure.
DeltaLenient(verdict) == IF verdict = "failed" THEN -1 ELSE 1

Delta(verdict) == IF verdict = "success" THEN 1 ELSE -1

NewScore(r) == runs[r].mem.score + Delta(LastVerdict(r))

\* Mutant of Rescored: the threshold itself does not retire.
RescoredLate(skill, score) ==
  [skill EXCEPT !.score = score,
                !.status = IF score < RetireThreshold THEN "RETIRED" ELSE @]

\* Mutant of Rescored: the UPDATE holds every column, as the new score has it.
RescoredWhole(skill, score) ==
  [skill EXCEPT !.score = score,
                !.status = IF score <= RetireThreshold THEN "RETIRED" ELSE "ACTIVE"]

\* The UPDATE holds the score and, when it has changed, the status.
Rescored(skill, score) ==
  [skill EXCEPT !.score = score,
                !.status = IF score <= RetireThreshold THEN "RETIRED" ELSE @]

WriteSkill(r) ==
  /\ In(r, "read")
  /\ LET v == runs[r].mem.at
     IN  /\ skills' = [skills EXCEPT ![v] = Rescored(@, NewScore(r))]
         /\ feedback' = feedback \cup {[run |-> r, skill |-> v, try |-> runs[r].try,
                                        delta |-> Delta(LastVerdict(r))]}
         /\ Becomes(r, [runs[r] EXCEPT !.phase = "scoring", !.left = @ \ {v}, !.mem = NoMemory])
  /\ UNCHANGED <<issues, deaths>>

ReviewEnds(r) ==
  /\ In(r, "scoring") /\ runs[r].left = {}
  /\ Forgets(r, "done")
  /\ UNCHANGED <<skills, feedback, issues, deaths>>

UnderReview == {"judged", "distilling", "looking", "numbering", "inserting", "scoring", "read"}

WorkerDies(r) ==
  /\ runs[r].phase \in UnderReview /\ deaths < MaxDeaths
  /\ deaths' = deaths + 1
  /\ Forgets(r, IF runs[r].try < MaxTries THEN "queued" ELSE "lost")
  /\ UNCHANGED <<skills, feedback, issues>>

----------------------------------------------------------------------------
\* detect_anomalies, every 15 minutes: an open issue is refreshed, never closed.

MinSample == 5
QueueDepthThreshold == 100

Monitor(total, failed, depth) ==
  /\ issues' = issues
       \cup (IF total >= MinSample /\ 2 * failed >= total THEN {"apply_failure_rate"} ELSE {})
       \cup (IF depth > QueueDepthThreshold THEN {"queue_depth"} ELSE {})
  /\ UNCHANGED <<skills, runs, feedback, deaths>>

Review(r) ==
  \/ \E verdict \in Verdicts : Judge(r, verdict)
  \/ RecordDiagnosis(r)
  \/ ModelFails(r)
  \/ NothingToSave(r)
  \/ \E content \in Content : Distil(r, content)
  \/ LookForDuplicate(r)
  \/ NumberVersion(r)
  \/ InsertSkill(r)
  \/ InsertRefused(r)
  \/ \E v \in runs[r].left : ReadSkill(r, v)
  \/ WriteSkill(r)
  \/ ReviewEnds(r)
  \/ WorkerDies(r)

Next ==
  \/ \E r \in Run, end \in Endings, recorded \in BOOLEAN : Apply(r, end, recorded)
  \/ \E r \in Run : Review(r)
  \/ Monitor(MinSample - 1, MinSample - 1, QueueDepthThreshold)
  \/ Monitor(MinSample, MinSample - 2, QueueDepthThreshold + 1)

Spec == Init /\ [][Next]_vars

----------------------------------------------------------------------------
Memory ==
  [content : Content \cup {"none"}, retries : 0..VersionRetries, next : Nat, at : Nat, score : Int]

RunState ==
  [phase : Phases, used : SUBSET Nat, signals : SUBSET Signals, try : Nat,
   verdicts : Seq(Verdicts), class : Classes, left : SUBSET Nat, mem : Memory]

(***************************************************************************)
(* The rows and the reviews have their types, and a review scores only     *)
(* skills there are: no row is ever deleted, whatever is inserted while    *)
(* reviews are under way (models/harness.py, review.py).                   *)
(***************************************************************************)
TypeOK ==
  /\ skills \in Seq(Skill)
  /\ runs \in [Run -> RunState]
  /\ \A r \in Run : /\ runs[r].used \subseteq 1..Len(skills)
                    /\ runs[r].left \subseteq runs[r].used
                    /\ runs[r].phase = "read" => runs[r].mem.at \in runs[r].left
                    /\ runs[r].try = Len(runs[r].verdicts)
  /\ feedback \subseteq [run : Run, skill : Nat, try : Nat, delta : {-1, 1}]
  /\ issues \subseteq Categories

(***************************************************************************)
(* No review, however stale what it has read, leaves a skill active at or  *)
(* below the threshold (skills.py:131-150).                                *)
(***************************************************************************)
ActiveIsAboveThreshold ==
  \A v \in 1..Len(skills) : skills[v].status = "ACTIVE" => skills[v].score > RetireThreshold

(***************************************************************************)
(* Nothing brings a retired skill back into prompts.  Overlapping feedback *)
(* may lose a delta but never a retirement, also when it was read before   *)
(* and is written after: the UPDATE leaves out a status that this review   *)
(* has not changed (skills.py:131-150).                                    *)
(***************************************************************************)
RetiredStaysRetired ==
  [][\A v \in 1..Len(skills) :
       skills[v].status = "RETIRED" => skills'[v].status = "RETIRED"]_vars

(***************************************************************************)
(* A skill is scored by the verdicts of runs that were given it: every     *)
(* feedback row is of a skill the run used and has the sign of the verdict *)
(* of that review attempt, and a review that has ended has scored all of   *)
(* them, one that ran again after a death included                         *)
(* (tasks.py:286-332, skills.py:131-150).                                  *)
(***************************************************************************)
FeedbackFollowsVerdict ==
  /\ \A f \in feedback :
       /\ f.skill \in runs[f.run].used
       /\ f.try \in 1..Len(runs[f.run].verdicts)
       /\ f.delta > 0 <=> runs[f.run].verdicts[f.try] = "success"
  /\ \A r \in Run : runs[r].phase = "done" =>
       \A v \in runs[r].used :
         \E f \in feedback : f.run = r /\ f.skill = v /\ f.try = runs[r].try
=============================================================================

---------------------------- MODULE Harness_proofs ----------------------------
(***************************************************************************)
(* The safety of the learning harness for every number of runs, reviews,   *)
(* skills and deaths, and every seed.                                      *)
(***************************************************************************)
EXTENDS Harness, WellFoundedInduction, TLAPS

\* What the place of a review says of what it holds.
Sound(run) ==
    /\ run.phase = "new" => run.verdicts = <<>>
    /\ run.phase \in UnderReview \cup {"done"} => run.try > 0
    /\ run.phase \in {"looking", "numbering", "inserting"} => run.mem.content \in Content
    /\ run.phase = "done" => run.left = {}

\* A review under way has scored what is not left, for its own verdict.
ScoredSoFar ==
    \A r \in Run : runs[r].phase \in UnderReview \cup {"done"} =>
        \A v \in runs[r].used \ runs[r].left :
            \E f \in feedback : f.run = r /\ f.skill = v /\ f.try = runs[r].try

IInv ==
    /\ TypeOK
    /\ ActiveIsAboveThreshold
    /\ \A r \in Run : Sound(runs[r])
    /\ ScoredSoFar
    /\ FeedbackFollowsVerdict

-----------------------------------------------------------------------------
\* Rows are added, if anything happens to them.
Grown == skills' \in Seq(Skill) /\ Len(skills') >= Len(skills) /\ ActiveIsAboveThreshold'

LEMMA SameIsGrown == IInv /\ UNCHANGED skills => Grown
  BY DEF IInv, TypeOK, Grown, ActiveIsAboveThreshold

\* A run r may become run, by an action that does not touch the feedback.
Follows(r, run) ==
    /\ run \in RunState
    /\ run.used \subseteq 1..Len(skills)
    /\ run.left \subseteq run.used
    /\ run.phase = "read" => run.mem.at \in run.left
    /\ run.try = Len(run.verdicts)
    /\ Sound(run)
    /\ \A i \in 1..Len(runs[r].verdicts) :
         i \in 1..Len(run.verdicts) /\ run.verdicts[i] = runs[r].verdicts[i]
    /\ run.used = runs[r].used \/ runs[r].phase = "new"
    /\ run.phase \in UnderReview \cup {"done"} =>
         \/ run.left = run.used
         \/ run.try = runs[r].try /\ run.left = runs[r].left
            /\ runs[r].phase \in UnderReview \cup {"done"}

LEMMA ReviewKeeps ==
    ASSUME IInv, NEW r \in Run, NEW run, Follows(r, run), Becomes(r, run),
           Grown, UNCHANGED <<feedback, issues>>
    PROVE  IInv'
<1>1. /\ runs' \in [Run -> RunState] /\ runs'[r] = run
      /\ \A o \in Run : o # r => runs'[o] = runs[o]
  BY DEF Becomes, IInv, TypeOK, Follows
<1>2. TypeOK'
  BY <1>1 DEF IInv, TypeOK, Follows, Grown
<1>3. ActiveIsAboveThreshold'
  BY DEF Grown
<1>4. \A o \in Run : Sound(runs'[o])
  BY <1>1 DEF IInv, Follows
<1>5. ScoredSoFar'
  <2> SUFFICES ASSUME NEW o \in Run, runs'[o].phase \in UnderReview \cup {"done"},
                      NEW v \in runs'[o].used, v \notin runs'[o].left
               PROVE  \E f \in feedback : f.run = o /\ f.skill = v /\ f.try = runs'[o].try
    BY DEF ScoredSoFar
  <2>1. CASE o # r
    BY <1>1, <2>1 DEF IInv, ScoredSoFar
  <2>2. CASE o = r
    <3>1. /\ run.used = runs[r].used /\ run.left = runs[r].left /\ run.try = runs[r].try
          /\ runs[r].phase \in UnderReview \cup {"done"}
      BY <1>1, <2>2 DEF Follows, UnderReview
    <3> QED
      BY <1>1, <2>2, <3>1 DEF IInv, ScoredSoFar
  <2> QED
    BY <2>1, <2>2
<1>6. \A f \in feedback :
         /\ f.skill \in runs'[f.run].used
         /\ f.try \in 1..Len(runs'[f.run].verdicts)
         /\ f.delta > 0 <=> runs'[f.run].verdicts[f.try] = "success"
  <2> TAKE f \in feedback
  <2>1. /\ f.run \in Run /\ f.skill \in runs[f.run].used
        /\ f.try \in 1..Len(runs[f.run].verdicts)
        /\ f.delta > 0 <=> runs[f.run].verdicts[f.try] = "success"
    BY DEF IInv, TypeOK, FeedbackFollowsVerdict
  <2>2. CASE f.run # r
    BY <1>1, <2>1, <2>2
  <2>3. CASE f.run = r
    <3>1. runs[r].phase # "new"
      BY <2>1, <2>3 DEF IInv, Sound
    <3> QED
      BY <1>1, <2>1, <2>3, <3>1 DEF Follows
  <2> QED
    BY <2>2, <2>3
<1>7. FeedbackFollowsVerdict'
  <2>1. \A o \in Run : runs'[o].phase = "done" => runs'[o].left = {}
    BY <1>4 DEF Sound
  <2> QED
    BY <1>5, <1>6, <2>1 DEF FeedbackFollowsVerdict, ScoredSoFar
<1> QED
  BY <1>2, <1>3, <1>4, <1>5, <1>7 DEF IInv

\* What a review forgets is nothing the invariant speaks of.
LEMMA ForgetsKeeps ==
    ASSUME IInv, NEW r \in Run, NEW phase \in Phases \ {"new"}, Forgets(r, phase),
           \/ phase \in {"queued", "lost"}
           \/ phase = "scoring" /\ runs[r].phase \in UnderReview
           \/ phase = "done" /\ runs[r].phase \in UnderReview /\ runs[r].left = {},
           Grown, UNCHANGED <<feedback, issues>>
    PROVE  IInv'
<1> DEFINE run == [runs[r] EXCEPT
              !.phase = phase, !.mem = NoMemory,
              !.left = IF phase = "scoring" THEN @ ELSE {},
              !.signals = IF phase \in {"done", "lost"} THEN {} ELSE @]
<1>1. runs[r] \in RunState /\ Sound(runs[r])
  BY DEF IInv, TypeOK
<1>2. run \in RunState
  <2>1. NoMemory \in Memory
    BY DEF NoMemory, Memory, VersionRetries
  <2> QED
    BY <1>1, <2>1 DEF RunState
<1>3. /\ run.phase = phase /\ run.verdicts = runs[r].verdicts /\ run.try = runs[r].try
      /\ run.used = runs[r].used
      /\ run.left = IF phase = "scoring" THEN runs[r].left ELSE {}
  BY <1>1 DEF RunState
<1>4. runs[r].used \subseteq 1..Len(skills) /\ runs[r].left \subseteq runs[r].used
      /\ runs[r].try = Len(runs[r].verdicts)
  BY DEF IInv, TypeOK
<1>5. Sound(run)
  <2> HIDE DEF run
  <2> QED
    BY <1>1, <1>3 DEF Sound, UnderReview
<1>6. Follows(r, run)
  <2> HIDE DEF run
  <2> QED
    BY <1>1, <1>2, <1>3, <1>4, <1>5 DEF Follows, UnderReview
<1>7. Becomes(r, run)
  BY DEF Forgets
<1> HIDE DEF run
<1> QED
  BY <1>6, <1>7, ReviewKeeps

-----------------------------------------------------------------------------
\* One lemma for each action of a run or its review.

LEMMA Types == ASSUME IInv, NEW r \in Run
               PROVE  /\ runs[r] \in RunState /\ Sound(runs[r])
                      /\ runs[r].mem \in Memory
                      /\ runs[r].used \subseteq 1..Len(skills)
                      /\ runs[r].left \subseteq runs[r].used
                      /\ runs[r].phase = "read" => runs[r].mem.at \in runs[r].left
                      /\ runs[r].try = Len(runs[r].verdicts)
                      /\ skills \in Seq(Skill) /\ Len(skills) \in Nat
  BY DEF IInv, TypeOK, RunState

\* A review that only moves on, whatever becomes of its memory.
LEMMA MovesKeeps ==
    ASSUME IInv, NEW r \in Run, NEW phase \in Phases \ {"new", "done", "read"},
           NEW mem \in Memory, NEW class \in Classes,
           Becomes(r, [runs[r] EXCEPT !.phase = phase, !.mem = mem, !.class = class]),
           runs[r].phase \in UnderReview,
           phase \in {"looking", "numbering", "inserting"} => mem.content \in Content,
           UNCHANGED <<skills, feedback, issues>>
    PROVE  IInv'
<1> DEFINE run == [runs[r] EXCEPT !.phase = phase, !.mem = mem, !.class = class]
<1>1. /\ run \in RunState /\ run.phase = phase /\ run.mem = mem
      /\ run.verdicts = runs[r].verdicts /\ run.try = runs[r].try
      /\ run.used = runs[r].used /\ run.left = runs[r].left
  BY Types DEF RunState
<1>2. Becomes(r, run)
  OBVIOUS
<1> HIDE DEF run
<1>3. Follows(r, run)
  BY <1>1, Types DEF Follows, Sound, UnderReview
<1> QED
  BY <1>2, <1>3, ReviewKeeps, SameIsGrown

LEMMA ApplyKeeps ==
    ASSUME IInv, NEW r \in Run, NEW end \in Endings, NEW recorded \in BOOLEAN,
           Apply(r, end, recorded)
    PROVE  IInv'
<1> DEFINE run == [NewRun EXCEPT !.phase = IF recorded THEN "queued" ELSE "lost",
                                 !.used = IF recorded THEN Loaded ELSE {},
                                 !.signals = IF recorded THEN SignalsOf(end) ELSE {}]
<1>1. Loaded \subseteq 1..Len(skills) /\ SignalsOf(end) \subseteq Signals
  BY Types DEF Loaded, Active, SignalsOf, Signals, FailureClasses
<1>2. /\ run \in RunState /\ run.phase \in {"queued", "lost"}
      /\ run.verdicts = <<>> /\ run.try = 0 /\ run.left = {}
      /\ run.used \subseteq 1..Len(skills)
  <2>1. NewRun \in RunState /\ NewRun.verdicts = <<>> /\ NewRun.try = 0 /\ NewRun.left = {}
    BY DEF RunState, NewRun, NoMemory, Memory, VersionRetries, Phases, Classes
  <2>2. Loaded \in SUBSET Nat
    BY <1>1
  <2> QED
    BY <1>1, <2>1, <2>2 DEF RunState, Phases
<1>3. Becomes(r, run) /\ runs[r].phase = "new"
  BY DEF Apply, In
<1> HIDE DEF run
<1>4. Follows(r, run)
  BY <1>2, <1>3, Types DEF Follows, Sound, UnderReview
<1> QED
  BY <1>3, <1>4, ReviewKeeps, SameIsGrown DEF Apply

LEMMA JudgeKeeps ==
    ASSUME IInv, NEW r \in Run, NEW verdict \in Verdicts, Judge(r, verdict)
    PROVE  IInv'
<1> DEFINE run == [runs[r] EXCEPT !.phase = "judged", !.verdicts = Append(@, verdict),
                                  !.try = @ + 1, !.left = runs[r].used]
<1>1. /\ Append(runs[r].verdicts, verdict) \in Seq(Verdicts)
      /\ Len(Append(runs[r].verdicts, verdict)) = Len(runs[r].verdicts) + 1
      /\ \A i \in 1..Len(runs[r].verdicts) :
           Append(runs[r].verdicts, verdict)[i] = runs[r].verdicts[i]
  BY Types DEF RunState
<1>2. /\ run \in RunState /\ run.phase = "judged"
      /\ run.verdicts = Append(runs[r].verdicts, verdict) /\ run.try = runs[r].try + 1
      /\ run.used = runs[r].used /\ run.left = runs[r].used
  <2>1. /\ runs[r] \in RunState /\ runs[r].try + 1 \in Nat
        /\ runs[r].used \in SUBSET Nat /\ "judged" \in Phases
    BY Types DEF RunState, Phases
  <2> QED
    BY <1>1, <2>1 DEF RunState
<1>3. Becomes(r, run)
  BY DEF Judge
<1> HIDE DEF run
<1>4. Follows(r, run)
  BY <1>1, <1>2, Types DEF Follows, Sound, UnderReview, RunState
<1> QED
  BY <1>3, <1>4, ReviewKeeps, SameIsGrown DEF Judge

LEMMA HasLeast ==
    ASSUME NEW shown \in SUBSET Nat, shown # {}
    PROVE  \E i \in shown : \A j \in shown : i <= j
<1>1. PICK i \in shown : \A j \in shown : ~ (<<j, i>> \in OpToRel(<, Nat))
  BY NatLessThanWellFounded, WFMin
<1>2. \A m, n \in Nat : <<m, n>> \in OpToRel(<, Nat) <=> m < n
  BY Zenon DEF OpToRel
<1>3. \A j \in shown : ~ (j < i)
  BY Zenon, <1>1, <1>2
<1> QED
  BY <1>3

LEMMA Diagnosed ==
    ASSUME NEW signals \in SUBSET Signals
    PROVE  Diagnose(signals) \in Classes
<1> DEFINE shown == {i \in 1..Len(FailureClasses) : FailureClasses[i] \in signals}
<1>1. shown \subseteq Nat /\ \A i \in shown : FailureClasses[i] \in Classes
  BY DEF FailureClasses, Signals, Classes
<1>2. shown # {} => \E i \in shown : \A j \in shown : i <= j
  <2> HIDE DEF shown
  <2> QED
    BY <1>1, HasLeast
<1>3. CASE shown = {}
  BY <1>3 DEF Diagnose, Classes
<1>4. CASE shown # {}
  <2>1. (CHOOSE i \in shown : \A j \in shown : i <= j) \in shown
    BY <1>2, <1>4
  <2> QED
    BY <1>1, <1>4, <2>1 DEF Diagnose
<1> QED
  BY <1>3, <1>4

LEMMA RecordDiagnosisKeeps ==
    ASSUME IInv, NEW r \in Run, RecordDiagnosis(r)
    PROVE  IInv'
<1> DEFINE class == IF LastVerdict(r) = "success" THEN runs[r].class
                    ELSE Diagnose(runs[r].signals)
<1>1. class \in Classes
  BY Types, Diagnosed DEF RunState
<1>2. /\ Becomes(r, [runs[r] EXCEPT !.phase = "distilling", !.mem = runs[r].mem,
                                    !.class = class])
      /\ runs[r].phase \in UnderReview
  BY Types DEF RecordDiagnosis, RunState, In, UnderReview, Becomes
<1>3. "distilling" \in Phases \ {"new", "done", "read"}
  BY DEF Phases
<1> HIDE DEF class
<1> QED
  BY <1>1, <1>2, <1>3, Types, MovesKeeps DEF RecordDiagnosis

\* The steps of the distilled skill that write no row.
LEMMA DistilKeeps ==
    ASSUME IInv, NEW r \in Run, 
           \/ NothingToSave(r)
           \/ \E content \in Content : Distil(r, content)
           \/ NumberVersion(r)
    PROVE  IInv'
<1> DEFINE To(phase, mem) ==
             Becomes(r, [runs[r] EXCEPT !.phase = phase, !.mem = mem, !.class = runs[r].class])
<1>1. \E phase \in Phases \ {"new", "done", "read"}, mem \in Memory :
         /\ To(phase, mem)
         /\ phase \in {"looking", "numbering", "inserting"} => mem.content \in Content
  <2>1. CASE NothingToSave(r)
    <3>1. To("scoring", runs[r].mem)
      BY <2>1, Types DEF NothingToSave, Moves, Becomes, RunState
    <3>2. runs[r].mem \in Memory /\ "scoring" \in Phases \ {"new", "done", "read"}
      BY Types DEF Phases
    <3> HIDE DEF To
    <3> QED
      BY <3>1, <3>2
  <2>2. ASSUME NEW content \in Content, Distil(r, content)
        PROVE  \E phase \in Phases \ {"new", "done", "read"}, mem \in Memory :
                  /\ To(phase, mem)
                  /\ phase \in {"looking", "numbering", "inserting"} => mem.content \in Content
    <3> DEFINE mem == [runs[r].mem EXCEPT !.content = IF content \in Clean THEN content ELSE @]
               phase == IF content \in Clean THEN "looking" ELSE "scoring"
    <3>1. mem \in Memory /\ (phase = "looking" => mem.content \in Content)
      BY Types DEF Memory
    <3>2. To(phase, mem)
      BY <2>2, Types DEF Distil, Becomes, RunState
    <3>3. phase \in {"looking", "scoring"}
      OBVIOUS
    <3> HIDE DEF mem, phase
    <3> QED
      BY <3>1, <3>2, <3>3 DEF Phases
  <2>3. CASE NumberVersion(r)
    <3> DEFINE mem == [runs[r].mem EXCEPT !.next = Len(skills) + 1]
    <3>1. mem \in Memory /\ mem.content \in Content
      BY <2>3, Types DEF NumberVersion, In, Memory, Sound
    <3>2. To("inserting", mem)
      BY <2>3, Types DEF NumberVersion, Becomes, RunState
    <3> HIDE DEF mem
    <3> QED
      BY <3>1, <3>2 DEF Phases
  <2> QED
    BY <2>1, <2>2, <2>3
<1>2. runs[r].phase \in UnderReview /\ UNCHANGED <<skills, feedback, issues>>
  BY DEF NothingToSave, Distil, NumberVersion, In, UnderReview
<1> QED
  BY <1>1, <1>2, Types, MovesKeeps DEF RunState

LEMMA LookKeeps ==
    ASSUME IInv, NEW r \in Run, LookForDuplicate(r)
    PROVE  IInv'
<1>1. runs[r].phase = "looking" /\ UNCHANGED <<skills, feedback, issues>>
  BY DEF LookForDuplicate, In
<1>2. CASE Moves(r, "numbering")
  <2>1. Becomes(r, [runs[r] EXCEPT !.phase = "numbering", !.mem = runs[r].mem,
                                   !.class = runs[r].class])
    BY <1>2, Types DEF Moves, Becomes, RunState
  <2>2. /\ "numbering" \in Phases \ {"new", "done", "read"}
        /\ runs[r].phase \in UnderReview /\ runs[r].mem.content \in Content
        /\ runs[r].mem \in Memory /\ runs[r].class \in Classes
    BY <1>1, Types DEF Phases, UnderReview, Sound, RunState
  <2> QED
    BY <1>1, <2>1, <2>2, MovesKeeps
<1>3. CASE Forgets(r, "scoring")
  BY <1>1, <1>3, ForgetsKeeps, SameIsGrown DEF Phases, UnderReview
<1>4. CASE Forgets(r, "lost")
  BY <1>1, <1>4, ForgetsKeeps, SameIsGrown DEF Phases, UnderReview
<1> QED
  BY <1>2, <1>3, <1>4 DEF LookForDuplicate

LEMMA ModelFailsKeeps ==
    ASSUME IInv, NEW r \in Run, ModelFails(r)
    PROVE  IInv'
  BY ForgetsKeeps, SameIsGrown DEF ModelFails, Phases

LEMMA InsertSkillKeeps ==
    ASSUME IInv, NEW r \in Run, InsertSkill(r)
    PROVE  IInv'
<1>1. runs[r].phase = "inserting" /\ NewSkill(r) \in Skill /\ NewSkill(r).score = 0
  BY Types DEF InsertSkill, In, Sound, NewSkill, Skill, Status
<1>2. Grown
  <2>1. /\ skills' \in Seq(Skill) /\ Len(skills') = Len(skills) + 1
        /\ \A v \in 1..Len(skills) : skills'[v] = skills[v]
        /\ skills'[Len(skills) + 1] = NewSkill(r)
    BY <1>1, Types DEF InsertSkill
  <2>2. ActiveIsAboveThreshold'
    <3> SUFFICES ASSUME NEW v \in 1..Len(skills) + 1, skills'[v].status = "ACTIVE"
                 PROVE  skills'[v].score > RetireThreshold
      BY <2>1 DEF ActiveIsAboveThreshold
    <3>1. CASE v = Len(skills) + 1
      BY <1>1, <2>1, <3>1 DEF RetireThreshold
    <3>2. CASE v \in 1..Len(skills)
      BY <2>1, <3>2 DEF IInv, ActiveIsAboveThreshold
    <3> QED
      BY <3>1, <3>2, Types
  <2> QED
    BY <2>1, <2>2, Types DEF Grown
<1>3. Forgets(r, "scoring") \/ Forgets(r, "lost")
  BY DEF InsertSkill
<1> QED
  BY <1>1, <1>2, <1>3, ForgetsKeeps DEF InsertSkill, Phases, UnderReview

LEMMA InsertRefusedKeeps ==
    ASSUME IInv, NEW r \in Run, InsertRefused(r)
    PROVE  IInv'
<1>1. runs[r].phase = "inserting" /\ UNCHANGED <<skills, feedback, issues>>
  BY DEF InsertRefused, In
<1>2. CASE runs[r].mem.retries + 1 < VersionRetries
  <2> DEFINE mem == [runs[r].mem EXCEPT !.retries = @ + 1, !.next = 0]
  <2>1. mem \in Memory /\ mem.content \in Content
    <3>1. runs[r].mem \in Memory /\ runs[r].mem.content \in Content
      BY <1>1, Types DEF Sound
    <3>2. runs[r].mem.retries + 1 \in 0..VersionRetries
      BY <1>2, <3>1 DEF Memory, VersionRetries
    <3> QED
      BY <3>1, <3>2 DEF Memory
  <2>2. Becomes(r, [runs[r] EXCEPT !.phase = "numbering", !.mem = mem, !.class = runs[r].class])
    BY <1>2, Types DEF InsertRefused, Becomes, RunState
  <2>3. /\ "numbering" \in Phases \ {"new", "done", "read"}
        /\ runs[r].phase \in UnderReview /\ runs[r].class \in Classes
    BY <1>1, Types DEF Phases, UnderReview, RunState
  <2> HIDE DEF mem
  <2> QED
    BY <1>1, <2>1, <2>2, <2>3, MovesKeeps
<1>3. CASE Forgets(r, "lost")
  BY <1>1, <1>3, ForgetsKeeps, SameIsGrown DEF Phases
<1> QED
  BY <1>2, <1>3 DEF InsertRefused

LEMMA ReadSkillKeeps ==
    ASSUME IInv, NEW r \in Run, NEW v \in runs[r].left, ReadSkill(r, v)
    PROVE  IInv'
<1> DEFINE mem == [runs[r].mem EXCEPT !.at = v, !.score = skills[v].score]
           run == [runs[r] EXCEPT !.phase = "read", !.mem = mem]
<1>1. mem \in Memory /\ mem.at = v
  <2>1. v \in 1..Len(skills) /\ v \in Nat
    BY Types
  <2>2. skills[v].score \in Int
    <3>1. skills[v] \in Skill
      BY <2>1, Types
    <3> QED
      BY <3>1 DEF Skill
  <2>3. runs[r].mem \in Memory
    BY Types
  <2> QED
    BY <2>1, <2>2, <2>3 DEF Memory
<1>2. Becomes(r, run) /\ runs[r].phase = "scoring"
  BY Types DEF ReadSkill, Becomes, RunState, In
<1> HIDE DEF mem
<1>3. /\ run \in RunState /\ run.phase = "read" /\ run.mem = mem
      /\ run.verdicts = runs[r].verdicts /\ run.try = runs[r].try
      /\ run.used = runs[r].used /\ run.left = runs[r].left
  BY <1>1, Types DEF RunState, Phases
<1> HIDE DEF run
<1>4. Follows(r, run)
  BY <1>1, <1>2, <1>3, Types DEF Follows, Sound, UnderReview
<1> QED
  BY <1>2, <1>4, ReviewKeeps, SameIsGrown DEF ReadSkill

LEMMA ReviewEndsKeeps ==
    ASSUME IInv, NEW r \in Run, ReviewEnds(r)
    PROVE  IInv'
  BY ForgetsKeeps, SameIsGrown DEF ReviewEnds, In, Phases, UnderReview

LEMMA WorkerDiesKeeps ==
    ASSUME IInv, NEW r \in Run, WorkerDies(r)
    PROVE  IInv'
<1>1. Forgets(r, "queued") \/ Forgets(r, "lost")
  BY DEF WorkerDies
<1> QED
  BY <1>1, ForgetsKeeps, SameIsGrown DEF WorkerDies, Phases

\* What a row is after a write from a score read at any time before.
LEMMA RescoredIsSkill ==
    ASSUME NEW skill \in Skill, NEW score \in Int
    PROVE  /\ Rescored(skill, score) \in Skill
           /\ Rescored(skill, score).status = "ACTIVE"
                => Rescored(skill, score).score > RetireThreshold
           /\ skill.status = "RETIRED" => Rescored(skill, score).status = "RETIRED"
<1> DEFINE status == IF score <= RetireThreshold THEN "RETIRED" ELSE skill.status
<1>1. status \in Status
  BY DEF Skill, Status
<1>2. Rescored(skill, score) = [skill EXCEPT !.score = score, !.status = status]
  BY DEF Rescored, Skill
<1>3. status = "ACTIVE" => score > RetireThreshold
  BY DEF RetireThreshold
<1>4. skill.status = "RETIRED" => status = "RETIRED"
  OBVIOUS
<1> HIDE DEF status
<1>5. /\ Rescored(skill, score) \in Skill
      /\ Rescored(skill, score).score = score /\ Rescored(skill, score).status = status
  BY <1>1, <1>2 DEF Skill
<1> QED
  BY <1>3, <1>4, <1>5

LEMMA WriteSkillRow ==
    ASSUME IInv, NEW r \in Run, WriteSkill(r)
    PROVE  /\ runs[r].mem.at \in runs[r].left /\ runs[r].mem.at \in 1..Len(skills)
           /\ Delta(LastVerdict(r)) \in {-1, 1} /\ NewScore(r) \in Int
           /\ skills' \in Seq(Skill) /\ Len(skills') = Len(skills)
           /\ \A v \in 1..Len(skills) :
                skills'[v] = IF v = runs[r].mem.at THEN Rescored(skills[v], NewScore(r))
                             ELSE skills[v]
<1>1. runs[r].mem.at \in runs[r].left /\ runs[r].mem.at \in 1..Len(skills)
  BY Types DEF WriteSkill, In
<1>2. Delta(LastVerdict(r)) \in {-1, 1}
  BY DEF Delta
<1>3. NewScore(r) \in Int
  <2>1. runs[r].mem.score \in Int
    BY Types DEF Memory
  <2> QED
    BY <1>2, <2>1 DEF NewScore
<1>4. \A v \in 1..Len(skills) : skills[v] \in Skill
  BY Types
<1>5. Rescored(skills[runs[r].mem.at], NewScore(r)) \in Skill
  BY <1>1, <1>3, <1>4, RescoredIsSkill
<1>6. skills' = [skills EXCEPT ![runs[r].mem.at] = Rescored(skills[runs[r].mem.at], NewScore(r))]
  BY DEF WriteSkill
<1>7. skills' \in Seq(Skill) /\ Len(skills') = Len(skills)
  BY <1>1, <1>5, <1>6, Types
<1>8. \A v \in 1..Len(skills) :
        skills'[v] = IF v = runs[r].mem.at THEN Rescored(skills[v], NewScore(r)) ELSE skills[v]
  BY <1>1, <1>6, Types
<1> QED
  BY <1>1, <1>2, <1>3, <1>7, <1>8

LEMMA WriteSkillKeeps ==
    ASSUME IInv, NEW r \in Run, WriteSkill(r)
    PROVE  IInv'
<1> DEFINE v == runs[r].mem.at
           run == [runs[r] EXCEPT !.phase = "scoring", !.left = @ \ {v}, !.mem = NoMemory]
           row == [run |-> r, skill |-> v, try |-> runs[r].try, delta |-> Delta(LastVerdict(r))]
<1>1. /\ runs[r].phase = "read" /\ Becomes(r, run) /\ feedback' = feedback \cup {row}
      /\ UNCHANGED <<issues, deaths>>
  BY DEF WriteSkill, In
<1>2. v \in runs[r].left /\ v \in runs[r].used /\ v \in 1..Len(skills)
  BY WriteSkillRow, Types
<1>3. /\ run \in RunState /\ run.phase = "scoring"
      /\ run.verdicts = runs[r].verdicts /\ run.try = runs[r].try
      /\ run.used = runs[r].used /\ run.left = runs[r].left \ {v}
  <2>1. NoMemory \in Memory
    BY DEF NoMemory, Memory, VersionRetries
  <2> HIDE DEF v
  <2> QED
    BY <2>1, Types DEF RunState, Phases
<1>4. /\ runs[r].try \in 1..Len(runs[r].verdicts) /\ runs[r].try \in Nat
      /\ LastVerdict(r) = runs[r].verdicts[runs[r].try]
  BY <1>1, Types DEF Sound, UnderReview, RunState, LastVerdict
<1>5. /\ row \in [run : Run, skill : Nat, try : Nat, delta : {-1, 1}]
      /\ row.delta > 0 <=> runs[r].verdicts[row.try] = "success"
  BY <1>2, <1>4, WriteSkillRow DEF Delta
<1>6. /\ runs' \in [Run -> RunState] /\ runs'[r] = run
      /\ \A o \in Run : o # r => runs'[o] = runs[o]
  <2> HIDE DEF run
  <2> QED
    BY <1>1, <1>3 DEF Becomes, IInv, TypeOK
<1> HIDE DEF run, v
<1>7. TypeOK'
  <2>1. feedback' \subseteq [run : Run, skill : Nat, try : Nat, delta : {-1, 1}]
    BY <1>1, <1>5 DEF IInv, TypeOK
  <2>2. skills' \in Seq(Skill) /\ Len(skills') = Len(skills)
    BY WriteSkillRow
  <2> QED
    BY <1>1, <1>3, <1>6, <2>1, <2>2 DEF IInv, TypeOK
<1>8. ActiveIsAboveThreshold'
  <2> SUFFICES ASSUME NEW w \in 1..Len(skills), skills'[w].status = "ACTIVE"
               PROVE  skills'[w].score > RetireThreshold
    BY WriteSkillRow DEF ActiveIsAboveThreshold
  <2>1. skills[w] \in Skill
    BY Types
  <2>2. CASE w = v
    BY <2>1, <2>2, WriteSkillRow, RescoredIsSkill DEF v
  <2>3. CASE w # v
    BY <2>3, WriteSkillRow DEF v, IInv, ActiveIsAboveThreshold
  <2> QED
    BY <2>2, <2>3
<1>9. \A o \in Run : Sound(runs'[o])
  <2>1. Sound(run)
    BY <1>1, <1>3, Types DEF Sound, UnderReview
  <2> QED
    BY <1>6, <2>1 DEF IInv
<1>10. ScoredSoFar'
  <2> SUFFICES ASSUME NEW o \in Run, runs'[o].phase \in UnderReview \cup {"done"},
                      NEW w \in runs'[o].used, w \notin runs'[o].left
               PROVE  \E f \in feedback' : f.run = o /\ f.skill = w /\ f.try = runs'[o].try
    BY DEF ScoredSoFar
  <2>1. CASE o # r
    BY <1>1, <1>6, <2>1 DEF IInv, ScoredSoFar
  <2>2. CASE o = r /\ w # v
    BY <1>1, <1>3, <1>6, <2>2 DEF IInv, ScoredSoFar, UnderReview
  <2>3. CASE o = r /\ w = v
    <3>1. row.run = o /\ row.skill = w /\ row.try = runs'[o].try
      BY <1>3, <1>6, <2>3
    <3> QED
      BY <1>1, <3>1
  <2> QED
    BY <2>1, <2>2, <2>3
<1>11. \A f \in feedback' :
          /\ f.skill \in runs'[f.run].used
          /\ f.try \in 1..Len(runs'[f.run].verdicts)
          /\ f.delta > 0 <=> runs'[f.run].verdicts[f.try] = "success"
  <2> TAKE f \in feedback'
  <2>1. \A o \in Run : /\ runs'[o].used = runs[o].used
                       /\ runs'[o].verdicts = runs[o].verdicts
    BY <1>3, <1>6
  <2>2. CASE f = row
    <3>1. f.run = r /\ f.skill = v /\ f.try = runs[r].try
      BY <2>2
    <3> QED
      BY <1>2, <1>4, <1>5, <2>1, <2>2, <3>1
  <2>3. CASE f \in feedback
    BY <2>1, <2>3 DEF IInv, TypeOK, FeedbackFollowsVerdict
  <2> QED
    BY <1>1, <2>2, <2>3
<1>12. FeedbackFollowsVerdict'
  <2>1. \A o \in Run : runs'[o].phase = "done" => runs'[o].left = {}
    BY <1>9 DEF Sound
  <2> QED
    BY <1>10, <1>11, <2>1 DEF FeedbackFollowsVerdict, ScoredSoFar
<1> QED
  BY <1>7, <1>8, <1>9, <1>10, <1>12 DEF IInv

-----------------------------------------------------------------------------
LEMMA InitHolds == Init => IInv
<1> SUFFICES ASSUME Init PROVE IInv
  OBVIOUS
<1>1. skills \in Seq(Skill) /\ ActiveIsAboveThreshold
  BY ConstantsAssumption DEF Init, ActiveIsAboveThreshold
<1>2. NewRun \in RunState
  BY DEF RunState, NewRun, NoMemory, Memory, VersionRetries, Phases, Classes
<1>3. /\ NewRun.used = {} /\ NewRun.left = {} /\ NewRun.phase = "new"
      /\ NewRun.try = 0 /\ NewRun.verdicts = <<>>
  BY DEF NewRun
<1>4. /\ runs \in [Run -> RunState] /\ \A r \in Run : runs[r] = NewRun
      /\ feedback = {} /\ issues = {}
  BY <1>2 DEF Init
<1>5. TypeOK
  BY <1>1, <1>3, <1>4 DEF TypeOK, Categories
<1>6. (\A r \in Run : Sound(runs[r])) /\ ScoredSoFar /\ FeedbackFollowsVerdict
  BY <1>3, <1>4 DEF Sound, ScoredSoFar, FeedbackFollowsVerdict, UnderReview
<1> QED
  BY <1>1, <1>5, <1>6 DEF IInv

LEMMA MonitorKeeps ==
    ASSUME IInv, NEW total, NEW failed, NEW depth, Monitor(total, failed, depth)
    PROVE  IInv'
  BY DEF Monitor, IInv, TypeOK, Categories, ActiveIsAboveThreshold, ScoredSoFar,
         FeedbackFollowsVerdict

LEMMA NextKeeps == IInv /\ [Next]_vars => IInv'
<1> SUFFICES ASSUME IInv, [Next]_vars PROVE IInv'
  OBVIOUS
<1>1. ASSUME NEW r \in Run, NEW end \in Endings, NEW recorded \in BOOLEAN,
             Apply(r, end, recorded)
      PROVE  IInv'
  BY <1>1, ApplyKeeps
<1>2. ASSUME NEW r \in Run, Review(r)
      PROVE  IInv'
  BY <1>2, JudgeKeeps, RecordDiagnosisKeeps, ModelFailsKeeps, DistilKeeps, LookKeeps,
     InsertSkillKeeps, InsertRefusedKeeps, ReadSkillKeeps, WriteSkillKeeps, ReviewEndsKeeps,
     WorkerDiesKeeps DEF Review
<1>3. ASSUME NEW total, NEW failed, NEW depth, Monitor(total, failed, depth)
      PROVE  IInv'
  BY <1>3, MonitorKeeps
<1>4. CASE UNCHANGED vars
  BY <1>4 DEF vars, IInv, TypeOK, ActiveIsAboveThreshold, ScoredSoFar, FeedbackFollowsVerdict
<1> QED
  BY <1>1, <1>2, <1>3, <1>4 DEF Next

(***************************************************************************)
(* The inductive invariant holds in every reachable state                  *)
(* (core/harness/review.py, core/harness/skills.py).                       *)
(***************************************************************************)
THEOREM Invariance == Spec => []IInv
  BY InitHolds, NextKeeps, PTL DEF Spec

(***************************************************************************)
(* The rows and the reviews are well typed (models/harness.py).            *)
(***************************************************************************)
THEOREM TypeCorrect == Spec => []TypeOK
<1>1. IInv => TypeOK
  BY DEF IInv
<1> QED
  BY <1>1, Invariance, PTL

(***************************************************************************)
(* However many reviews overlap and whatever each has read, no active      *)
(* skill is at or below the threshold (skills.py:131-150).                 *)
(***************************************************************************)
THEOREM ActiveAbove == Spec => []ActiveIsAboveThreshold
<1>1. IInv => ActiveIsAboveThreshold
  BY DEF IInv
<1> QED
  BY <1>1, Invariance, PTL

(***************************************************************************)
(* Scores come from the verdicts of runs that used the skill, and a review *)
(* that has ended has scored every one of them (tasks.py:286-332).         *)
(***************************************************************************)
THEOREM FeedbackFollows == Spec => []FeedbackFollowsVerdict
<1>1. IInv => FeedbackFollowsVerdict
  BY DEF IInv
<1> QED
  BY <1>1, Invariance, PTL

\* A step of a review changes a row only by a write of a score.
LEMMA StaysRetired ==
    ASSUME IInv, [Next]_vars, NEW v \in 1..Len(skills), skills[v].status = "RETIRED"
    PROVE  skills'[v].status = "RETIRED"
<1>1. CASE UNCHANGED skills
  BY <1>1
<1>2. ASSUME NEW r \in Run, InsertSkill(r)
      PROVE  skills'[v].status = "RETIRED"
  <2>1. skills' = Append(skills, NewSkill(r)) /\ NewSkill(r) \in Skill
    BY <1>2, Types DEF InsertSkill, In, Sound, NewSkill, Skill, Status
  <2> QED
    BY <2>1, Types
<1>3. ASSUME NEW r \in Run, WriteSkill(r)
      PROVE  skills'[v].status = "RETIRED"
  <2>1. NewScore(r) \in Int /\ skills[v] \in Skill
        /\ skills'[v] = IF v = runs[r].mem.at THEN Rescored(skills[v], NewScore(r)) ELSE skills[v]
    BY <1>3, WriteSkillRow, Types
  <2> QED
    BY <2>1, RescoredIsSkill
<1>4. ASSUME Next, \A r \in Run : ~InsertSkill(r) /\ ~WriteSkill(r)
      PROVE  UNCHANGED skills
  BY <1>4 DEF Next, Review, Apply, Judge, RecordDiagnosis, ModelFails, NothingToSave, Distil,
              LookForDuplicate, NumberVersion, InsertRefused, ReadSkill, ReviewEnds,
              WorkerDies, Monitor
<1> QED
  BY <1>1, <1>2, <1>3, <1>4 DEF vars

(***************************************************************************)
(* A retirement is never undone, however many reviews overlap              *)
(* (skills.py:131-150).                                                    *)
(***************************************************************************)
THEOREM RetiredStays == Spec => RetiredStaysRetired
<1>1. IInv /\ [Next]_vars =>
        [\A v \in 1..Len(skills) :
           skills[v].status = "RETIRED" => skills'[v].status = "RETIRED"]_vars
  BY StaysRetired
<1> QED
  BY <1>1, Invariance, PTL DEF Spec, RetiredStaysRetired
=============================================================================

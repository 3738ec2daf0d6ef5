------------------------------ MODULE Matching ------------------------------
(***************************************************************************)
(* Match Intelligence V2: services/eligibility.py, services/matching.py    *)
(* and the schemas they share.  The model proposes an analysis; what it    *)
(* cites is checked against the candidate's evidence, what it omits is     *)
(* added, and the score is computed from the result.                       *)
(*                                                                         *)
(* A requirement's text is the record of what the code looks for in it:    *)
(*   marks     the groups of words that decide category, importance, depth *)
(*   names     the skill names that occur in it                            *)
(*   clusters  the transferable clusters one of its words belongs to       *)
(* An item of the candidate's evidence is its id, the name it has when it  *)
(* is a skill whose name can be looked for, whether it proves depth, and   *)
(* the clusters of its description's words.  Percentages are in hundredths.*)
(***************************************************************************)
EXTENDS Integers, Sequences, FiniteSets, Sums

NoSkill == "not a skill"
NoScore == -1

Marks == {"preferred", "telecom", "must", "degree", "duty", "depth"}

----------------------------------------------------------------------------
\* Eligibility.

Nationals == {"saudi", "emirati", "qatari", "bahraini", "kuwaiti", "omani"}

\* A nationality is compared with the name of a country.
IsNational(c, j) == j.country # "" /\ c.nationality = j.country

Blockers(c, j) ==
  {r \in {"saudi", "gcc", "iqama"} :
     CASE r = "saudi" -> "saudi_national_only" \in j.gcc /\ c.nationality # "saudi"
       [] r = "gcc"   -> "gcc_national_only" \in j.gcc /\ c.nationality \notin Nationals
       [] r = "iqama" -> /\ "iqama_transferable_required" \in j.gcc
                         /\ ~IsNational(c, j) /\ ~c.iqama_transferable}

Warned(c, j) ==
  \/ /\ j.city # "" /\ c.city # "" /\ j.city # c.city
     /\ ~c.willing_to_relocate /\ j.work_model # "remote"
  \/ j.requirements # <<>> /\ j.gcc = {}

Eligibility(c, j) == IF Blockers(c, j) # {} THEN "FAIL"
                     ELSE IF Warned(c, j) THEN "WARNING" ELSE "PASS"

----------------------------------------------------------------------------
\* Requirements.

Category(text) ==
  IF "preferred" \in text.marks THEN "PREFERRED"
  ELSE IF "telecom" \in text.marks THEN "DOMAIN_EXPERIENCE"
  ELSE IF text.marks \cap {"must", "degree"} # {} THEN "HARD_REQUIREMENT"
  ELSE IF "duty" \in text.marks THEN "CORE_RESPONSIBILITY"
  ELSE "TRANSFERABLE_COMPETENCY"

DefaultImportance(text) ==
  LET c == Category(text)
  IN  IF c = "PREFERRED" THEN "LOW"
      ELSE IF c = "HARD_REQUIREMENT" \/ (c = "DOMAIN_EXPERIENCE" /\ "must" \in text.marks)
           THEN "CRITICAL"
      ELSE IF c \in {"DOMAIN_EXPERIENCE", "CORE_RESPONSIBILITY"} THEN "HIGH" ELSE "MEDIUM"

\* RequirementAnalysis, about one of a set of texts and citing some of a set of ids.
Requirement(texts, ids) ==
  [text : texts, importance : {"CRITICAL", "HIGH", "MEDIUM", "LOW"},
   status : {"MATCH", "PARTIAL", "GAP", "UNKNOWN"},
   type : {"DIRECT", "TRANSFERABLE", "WEAK", "NONE", "UNKNOWN"}, ids : SUBSET ids]

\* A source requirement the model has left out.
Omitted(text) == [text |-> text, importance |-> DefaultImportance(text),
                  status |-> "GAP", type |-> "NONE", ids |-> {}]

Texts(reqs) == {reqs[k].text : k \in DOMAIN reqs}

Cited(reqs) == UNION {reqs[k].ids : k \in DOMAIN reqs}

IsAnalysis(reqs) == reqs \in Seq(Requirement(Texts(reqs), Cited(reqs)))

IsSequence(items) == items \in Seq({items[k] : k \in DOMAIN items})

Uncovered(reqs, text) == text \notin Texts(reqs)

Represented(reqs, text) == IF Uncovered(reqs, text) THEN Append(reqs, Omitted(text)) ELSE reqs

\* No analysis at all stays no analysis.
Covered(reqs, source) ==
  LET covered[n \in 0..Len(source)] ==
        IF n = 0 THEN reqs ELSE Represented(covered[n - 1], source[n])
  IN  IF reqs = <<>> THEN reqs ELSE covered[Len(source)]

\* The ids of the first three items among those that match.
FirstThree(evidence, matching) ==
  {evidence[k].id : k \in {k \in matching : Cardinality({i \in matching : i <= k}) <= 3}}

SkillMatches(text, evidence) ==
  FirstThree(evidence, {k \in DOMAIN evidence : evidence[k].name \in text.names})

TransferableMatches(text, evidence) ==
  FirstThree(evidence, {k \in DOMAIN evidence : evidence[k].clusters \cap text.clusters # {}})

\* Mutant of Own: the ids the model cites are believed.
OwnAtAll(ids, evidence) == ids

Own(ids, evidence) == ids \cap {evidence[k].id : k \in DOMAIN evidence}

HasDepth(ids, evidence) ==
  \E k \in DOMAIN evidence : evidence[k].id \in ids /\ evidence[k].depth

Ground(req, ids, status, type) ==
  [req EXCEPT !.ids = ids, !.status = status, !.type = type]

CitedType(req) ==
  IF req.type \notin {"NONE", "UNKNOWN"} THEN req.type
  ELSE CASE req.status = "MATCH"   -> "DIRECT"
         [] req.status = "PARTIAL" -> "TRANSFERABLE"
         [] OTHER                  -> "WEAK"

\* finalize_requirement_analysis for one requirement
Grounded(req, evidence) ==
  LET text    == req.text
      direct  == SkillMatches(text, evidence)
      cited   == Own(req.ids, evidence)
      similar == IF Category(text) \in {"CORE_RESPONSIBILITY", "TRANSFERABLE_COMPETENCY"}
                 THEN TransferableMatches(text, evidence) ELSE {}
  IN  IF direct # {}
      THEN IF "depth" \in text.marks /\ ~HasDepth(direct, evidence)
           THEN Ground(req, direct, "PARTIAL", "WEAK")
           ELSE Ground(req, direct, "MATCH", "DIRECT")
      ELSE IF cited # {}   THEN Ground(req, cited, req.status, CitedType(req))
      ELSE IF similar # {} THEN Ground(req, similar, "PARTIAL", "TRANSFERABLE")
      ELSE Ground(req, {}, req.status, "NONE")

----------------------------------------------------------------------------
\* The score.

Weight(req) == CASE req.importance = "CRITICAL" -> 4 [] req.importance = "HIGH" -> 3
                 [] req.importance = "MEDIUM" -> 2 [] req.importance = "LOW" -> 1

Credit(req) == CASE req.type = "DIRECT" -> 100 [] req.type = "TRANSFERABLE" -> 55
                 [] req.type = "WEAK" -> 25 [] req.type \in {"NONE", "UNKNOWN"} -> 0

\* Python's round: to the nearest, a tie to the even one.
Rounded(n, d) == LET q == n \div d
                     r == 2 * (n % d)
                 IN  IF r > d \/ (r = d /\ q % 2 = 1) THEN q + 1 ELSE q

Contribution(req, total) == Rounded(Rounded(Weight(req) * 10000, total) * Credit(req), 100)

Clamped(n) == IF n < 0 THEN 0 ELSE IF n > 100 THEN 100 ELSE n

Scored(reqs) == LET total == SumOf([k \in DOMAIN reqs |-> Weight(reqs[k])])
                IN  [k \in DOMAIN reqs |-> [req |-> reqs[k],
                                            contribution |-> Contribution(reqs[k], total)]]

RequirementScore(scored) ==
  Clamped(Rounded(SumOf([k \in DOMAIN scored |-> scored[k].contribution]), 100))

\* Nothing checks that what the model gives for a dimension is a percentage.
DimensionAverage(scores) ==
  LET valid == SelectSeq(scores, LAMBDA s : s # NoScore)
  IN  IF valid = <<>> THEN NoScore ELSE SumOf(valid) \div Len(valid)

----------------------------------------------------------------------------
\* match_candidate, after the call of the model

MatchFailed(c, j) ==
  [eligibility |-> Eligibility(c, j), score |-> NoScore, verdict |-> "INSUFFICIENT_DATA",
   recommendation |-> "review", analysis |-> <<>>]

MatchAnswered(c, j, proposal) ==
  LET eligibility == Eligibility(c, j)
      reqs == Covered(proposal.reqs, j.requirements)
      analysis == Scored([k \in DOMAIN reqs |-> Grounded(reqs[k], c.evidence)])
  IN  [eligibility |-> eligibility,
       score |-> IF reqs = <<>> THEN DimensionAverage(proposal.dimensions)
                                ELSE RequirementScore(analysis),
       verdict |-> IF eligibility = "FAIL" THEN "WEAK_MATCH" ELSE proposal.verdict,
       recommendation |-> proposal.recommendation,
       analysis |-> analysis]

============================================================================

----------------------------- MODULE ResumeWork -----------------------------
(***************************************************************************)
(* The rest of what is done with resumes and postings, next to Assessment: *)
(* a resume is scored, optimised, rendered, or read into the draft of a    *)
(* profile; a search registers what the platforms list; a card is drawn.   *)
(* Each is one operation on a fresh state, with the rules of ResumeText,   *)
(* Ats, ProfileDraft and JobBoard and the calls of LlmClient.              *)
(***************************************************************************)
EXTENDS Assessment, Ats, ProfileDraft, JobBoard, SequencesExt, FiniteSetsExt

CONSTANTS Resumes,        \* texts, as sequences of lines
          Uploads,        \* texts to be read into a profile
          Extractions,    \* the model's answers: [contact, skills]
          ScoredTexts, JobTexts, Similarities,
          Histories,      \* [experience, degrees] of a candidate
          Boards,         \* [existing, platforms, meanwhile]
          Cards, Adverts  \* the rows behind a card; postings to be judged

ASSUME ResumeWorkAssumption ==
  /\ \A b \in Boards : /\ IsSequence(b.platforms)
                       /\ \A a \in Range(b.platforms) : IsSequence(a.listings)
  /\ \A text \in ScoredTexts : IsSequence(text)
  /\ \A p \in JobTexts :
       /\ IsSequence(p.words) /\ IsSequence(p.required) /\ IsSequence(p.preferred)
       /\ IsFiniteSet(DOMAIN p.keywords) /\ IsFiniteSet(p.phrases)
       /\ \A k \in DOMAIN p.keywords : p.keywords[k] \in DOMAIN FrequencyWeight
       /\ p.years \in Int
  /\ Similarities \subseteq 0..Full
  /\ \A h \in Histories : /\ IsSequence(h.experience)
                          /\ \A e \in Range(h.experience) : e.years \in Nat

\* Bound: these operations do not touch the job.
StartAlone(t) ==
  /\ job.posting.requirements = <<>> /\ ~job.normalized
  /\ StartApart(t)

Alone(op) == task.op = op /\ UNCHANGED <<llmVars, job>>

----------------------------------------------------------------------------
\* A resume for a job.  The client it passes to the generator has no tasks, so
\* the call for a tailored text always fails and the base text is rendered.

\* The lines that extraction may glue to the one before: a heading in capitals
\* behind anything but a word of prose, and the line below one.
Gluable(lines) ==
  LET Capital(i) == Range(lines[i]) \subseteq Capitals /\ IsHeader(lines[i])
  IN  {i \in 2..Len(lines) : Last(lines[i - 1]) \notin Prose
                              /\ (Capital(i) \/ Capital(i - 1))}

\* Bound: up to two of them, or all.
Gluings(lines) == {at \in SUBSET Gluable(lines) : Cardinality(at) <= 2 \/ at = Gluable(lines)}

Glued(lines, at) ==
  LET starts == {i \in DOMAIN lines : i \notin at}
      End(i) == Min({j - 1 : j \in {k \in starts : k > i}} \cup {Len(lines)})
      order  == Ordered(starts, Len(lines))
  IN  [k \in DOMAIN order |-> FlattenSeq(SubSeq(lines, order[k], End(order[k])))]

StartGenerate(lines, at) ==
  StartAlone([op |-> "generate", lines |-> lines, text |-> Glued(lines, at)])

\* Each requested format is rendered or fails; no file, no resume.
Generated(rendered) ==
  /\ Alone("generate")
  /\ Finish(IF ~rendered THEN [op |-> "failed"]
            ELSE [op |-> "generate", lines |-> task.lines, data |-> BuildResumeData(task.text)])

----------------------------------------------------------------------------
\* An upload for the profile, and the data for its editor.

StartImport(text) == StartAlone([op |-> "import", parsed |-> Parse(text)])

AskImport == /\ task.op = "import" /\ ~Over
             /\ Ask([RouterAsk(FALSE, FALSE) EXCEPT !.heavy = FALSE])

ImportEnds(draft) ==
  Finish([op |-> "import", parsed |-> task.parsed, content |-> call.content, draft |-> draft])

Imported ==
  /\ task.op = "import" /\ Over /\ Hung /\ UNCHANGED job
  /\ IF call.phase = "failed" THEN ImportEnds(FallbackFromParsed(task.parsed))
     ELSE \E answer \in Extractions :
            ImportEnds(Supplemented(LlmToDraft(answer), task.parsed))

Edited ==
  /\ Alone("import") /\ call = Idle
  /\ Finish([op |-> "profile", data |-> ExtractProfile(task.parsed.text)])

----------------------------------------------------------------------------
\* Scores, and a text rewritten by the model.  The score of the new resume is
\* that of the old text, which it keeps.

StartScoring(text, posting) ==
  StartAlone([op |-> "score", text |-> text, posting |-> posting])

Scores(engine, similarity) == ScoreResume(task.text, task.posting, engine, similarity)

ScoreEnds(engine, similarity) ==
  /\ Alone("score")
  /\ Finish([op |-> "score", text |-> task.text, posting |-> task.posting, engine |-> engine,
             similarity |-> similarity, score |-> Scores(engine, similarity)])

StartOptimize(text, posting, engine) ==
  StartAlone([op |-> "optimize", text |-> text, posting |-> posting, engine |-> engine])

AskOptimize(keyed) ==
  /\ task.op = "optimize" /\ ~Over
  /\ Ask([user |-> TRUE, keyed |-> keyed, routed |-> FALSE, heavy |-> FALSE,
          structured |-> TRUE])

\* The optimizer needs the same engine; without it the scorer's suggestions do.
Advice(score, text, posting, engine) ==
  LET said == Suggestions(score, text, engine)
  IN  IF engine THEN SuggestImprovements(score, said, text, posting) ELSE said

Optimised(rendered) ==
  /\ task.op = "optimize" /\ Over /\ Hung /\ UNCHANGED job
  /\ LET score == Scores(task.engine, 0)
     IN  Finish(IF call.phase = "failed" \/ ~rendered THEN [op |-> "failed"]
                ELSE [op |-> "optimize", text |-> task.text, ats_score |-> score.overall,
                      advice |-> Advice(score, task.text, task.posting, task.engine)])

----------------------------------------------------------------------------
\* Searches and cards.

StartFind(board) == StartAlone([op |-> "find", board |-> board])

Found ==
  /\ Alone("find")
  /\ LET s == RegisterAll(task.board.existing, task.board.platforms)
         kept == Commit(s, task.board.meanwhile)
     IN  Finish([op |-> "find", board |-> task.board, rows |-> kept.rows, shown |-> kept.shown,
                 page |-> Page(kept.shown, 1, 2)])

StartCard(card, advert) == StartAlone([op |-> "card", card |-> card, advert |-> advert])

Drawn ==
  /\ Alone("card")
  /\ Finish([op |-> "card", state |-> OperationalState(task.card),
             quality |-> AssessPostingQuality(task.advert)])

WorkNext ==
  \/ Next
  \/ \E lines \in Resumes : \E at \in Gluings(lines) : StartGenerate(lines, at)
  \/ \E rendered \in BOOLEAN : Generated(rendered)
  \/ \E text \in Uploads : StartImport(text)
  \/ AskImport
  \/ Imported
  \/ Edited
  \/ \E text \in ScoredTexts, posting \in JobTexts : StartScoring(text, posting)
  \/ \E engine \in BOOLEAN, similarity \in Similarities : ScoreEnds(engine, similarity)
  \/ \E text \in ScoredTexts, posting \in JobTexts, engine \in BOOLEAN :
       StartOptimize(text, posting, engine)
  \/ \E keyed \in BOOLEAN : AskOptimize(keyed)
  \/ \E rendered \in BOOLEAN : Optimised(rendered)
  \/ \E board \in Boards : StartFind(board)
  \/ Found
  \/ \E card \in Cards, advert \in Adverts : StartCard(card, advert)
  \/ Drawn

WorkSpec == Init /\ [][WorkNext]_vars

----------------------------------------------------------------------------
\* The words of a set of texts.
WordsOf(texts) == {tok \in UNION {Range(t) : t \in texts} : tok \notin {"|", ",", ".", "*", ":"}}

\* The lines of a section from the first that can start an entry on: the bullets before
\* it are dropped.
Belonging(lines, Opens(_)) ==
  {lines[i] : i \in {k \in DOMAIN lines : \E j \in 1..k : ~IsBullet(lines[j]) /\ Opens(lines[j])}}

Anything(line) == TRUE
Undated(line)  == ~Dated(line)

Placed(data) ==
  {data.summary} \cup Range(data.skills)
    \cup UNION {{e.title, e.company, e.duration} \cup Range(e.description) : e \in Range(data.experience)}
    \cup UNION {{p.name} \cup Range(p.description) : p \in Range(data.projects)}

(***************************************************************************)
(* Structuring moves what the extraction has misplaced.  A heading in      *)
(* capitals is found wherever it is glued to, so that the document is the  *)
(* same as of the text with the heading on a line of its own.  Of the      *)
(* experience, projects and skills sections that are read (the later of    *)
(* two with one heading, the first named of several headings of a kind)    *)
(* the words end in an entry, in a skill or in the summary, but for five   *)
(* losses: what comes before the line that starts the first entry, what a  *)
(* job's line has beyond three cells, a short line with a year among the   *)
(* projects, a skill that reads like prose when there is a summary, and    *)
(* one when a long line precedes the first heading (resume_text.py:        *)
(* 139-177, 258-299, 302-361, 404-448, 507-538, 612-640, 662-668).         *)
(* What the model makes of an upload, or whether it answers at all, loses  *)
(* no contact detail the parser has found and no skill within its limit    *)
(* (candidate_profile.py:372-392, 165-189).                                *)
(***************************************************************************)
ContentIsKept ==
  /\ result.op = "generate" =>
       LET split == SplitSections(Tail(NormalizeResumeText(result.lines)))
           Sec(keys) == First(split.sections, keys)
           early    == \E l \in Range(split.pre) : Long(l) > 40
           jobs     == {l \in Belonging(Sec(ExperienceKeys), Anything) : Len(Cells(l)) <= 3}
           projects == {l \in Belonging(Sec(ProjectKeys), Undated) : IsBullet(l) \/ ~Dated(l)}
           skills   == {t \in UNION {Range(Split(l, {",", "*", "|"})) : l \in Range(Sec(SkillKeys))} :
                          IsProse(t) => Sec(SummaryKeys) = <<>> /\ ~early}
       IN  /\ result.data = BuildResumeData(result.lines)
           /\ WordsOf(jobs \cup projects \cup skills) \subseteq WordsOf(Placed(result.data))
  /\ result.op = "import" =>
       /\ \A k \in Contacts :
            result.parsed.contact[k] # <<>> => result.draft.contact[k].value # <<>>
       /\ \A k \in DOMAIN result.parsed.skills :
            k <= FallbackSkills =>
              \E i \in DOMAIN result.draft.skills :
                Lowered(result.draft.skills[i].value) = Lowered(result.parsed.skills[k])

(***************************************************************************)
(* A resume is not scored lower for saying more: with one of the posting's *)
(* required skills written into it the factors for skills, experience and  *)
(* education do not fall, whatever the candidate's history, and neither do *)
(* the one for keywords and the overall score unless the two texts become  *)
(* less similar, which only the language model decides.  A skill the       *)
(* tables know is then no longer missing, if the term required can be      *)
(* found between word boundaries: "c++" and "c#" cannot, and stay missing. *)
(* All factors stay in range (scorer.py:99-216, keyword_analyzer.py:       *)
(* 177-310, skill_matcher.py:190-330, resume.py:366-480).                  *)
(***************************************************************************)
Factors == {"overall", "skill", "experience", "education", "keyword"}
Similar == {"overall", "keyword"}

ScoreFollowsEvidence ==
  result.op = "score" =>
    LET Service(text, sim) == ScoreResume(text, result.posting, result.engine, sim)
        Scorer(h, text, sim) == ScoreOf([CandidateOf(text) EXCEPT !.experience = h.experience,
                                                                  !.degrees = h.degrees],
                                        result.posting, sim)
        More(s) == Append(result.text, s)
        Grows(less, more, sim) ==
          \A f \in Factors :
            /\ less[f] \in 0..Full /\ more[f] \in 0..Full
            /\ sim >= result.similarity \/ f \notin Similar => more[f] >= less[f]
    IN  \A s \in Range(result.posting.required), sim \in Similarities :
          /\ Grows(result.score, Service(More(s), sim), sim)
          /\ NormalizeSkill(s) \in DOMAIN Variations /\ s \in Bounded =>
               s \notin Range(Service(More(s), sim).missing)
          /\ \A h \in Histories :
               Grows(Scorer(h, result.text, result.similarity), Scorer(h, More(s), sim), sim)

(***************************************************************************)
(* A search that nothing disturbs keeps every listing of the platforms     *)
(* that answer: two listings share a row only if they are the same one,    *)
(* each is shown once, and what is shown is stored.  It is disturbed only  *)
(* by listings without id and url and by another search that stores one of *)
(* its listings first (job_search.py:211-226, 265-303, 423-430).           *)
(***************************************************************************)
SearchKeepsListings ==
  result.op = "find" =>
    LET answers  == {a \in Range(result.board.platforms) : ~a.failed}
        listings == UNION {Range(a.listings) : a \in answers}
        Same(l, m) == l.platform = m.platform /\ l.id = m.id /\ (l.id = "" => l.url = m.url)
        disturbed == \/ \E l \in listings : l.id = "" /\ l.url = ""
                     \/ {Key(l) : l \in listings} \cap result.board.meanwhile # {}
    IN  /\ IsInjective(result.shown) \/ \E l \in listings : l.id = "" /\ l.url = ""
        /\ Range(result.shown) \subseteq result.rows
        /\ ~disturbed => Cardinality(Range(result.shown))
                           = Cardinality({{m \in listings : Same(l, m)} : l \in listings})
=============================================================================

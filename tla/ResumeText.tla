----------------------------- MODULE ResumeText -----------------------------
(***************************************************************************)
(* How the text of a resume becomes a structured document                  *)
(* (services/resume_text.py).  A text is a sequence of lines and a line a  *)
(* sequence of tokens: words, numbers, and the marks the parser looks for, *)
(* each a token of its own.  A token may stand for a run of words that no  *)
(* rule separates; Width says how long it is.  Abstracted: letters (the    *)
(* extraction may space them out; what a token is meant to say is          *)
(* Repaired), white space, and the un-gluing of words inside a skill.      *)
(***************************************************************************)
EXTENDS Integers, Sequences, FiniteSets, SequencesExt, FiniteSetsExt

CONSTANTS Repaired,      \* token as extracted -> token as written
          Width,         \* token -> characters, with the space in front
          Lower,         \* token -> its lower case
          Capitals,      \* tokens all in capitals (marks and numbers, too)
          Prose,         \* words all in lower case
          Numbers, Years, Institutions,
          Contact        \* token -> "email", "phone", "linkedin", "github" or "no"

\* The marks are "|", ",", ".", "!", "?", ":" and "*", which is any bullet.
Sentence == {".", "!", "?"}

Long(t)         == FoldLeft(LAMBDA n, tok : n + Width[tok], -1, t)
Has(t, tokens)  == \E i \in DOMAIN t : t[i] \in tokens
Ends(t, tokens) == t # <<>> /\ Last(t) \in tokens
Dated(t)        == Has(t, Years) /\ Long(t) <= 40
Words(t)        == SelectSeq(t, LAMBDA tok : tok \notin {",", ".", "!", "?", ":"})
Lowered(t)      == [i \in DOMAIN t |-> Lower[t[i]]]

NonEmpty(parts) == SelectSeq(parts, LAMBDA p : p # <<>>)

\* The members of a set of numbers up to n, in order.
Ordered(set, n) == SelectSeq([i \in 1..n |-> i], LAMBDA i : i \in set)

\* t cut in front of every position of a set.
CutBefore(t, starts) ==
  LET cuts == Ordered(starts \cup {1, Len(t) + 1}, Len(t) + 1)
  IN  NonEmpty([k \in 1..(Len(cuts) - 1) |-> SubSeq(t, cuts[k], cuts[k + 1] - 1)])

\* The non-empty parts of t between the given marks.
Split(t, marks) ==
  NonEmpty([k \in DOMAIN CutBefore(t, {i \in DOMAIN t : t[i] \in marks}) |->
              SelectSeq(CutBefore(t, {i \in DOMAIN t : t[i] \in marks})[k],
                        LAMBDA tok : tok \notin marks)])

Cells(line) == Split(line, {"|"})

----------------------------------------------------------------------------
\* Normalisation.

\* The headings, longest first.
SectionHeaders ==
  << <<"professional", "experience">>, <<"additional", "information">>,
     <<"community", "involvement">>, <<"professional", "summary">>,
     <<"academic", "background">>, <<"core", "competencies">>,
     <<"personal", "projects">>, <<"technical", "skills">>, <<"work", "experience">>,
     <<"certifications">>, <<"key", "projects">>, <<"competencies">>, <<"certificates">>,
     <<"publications">>, <<"volunteering">>, <<"experience">>, <<"employment">>,
     <<"references">>, <<"activities">>, <<"objective">>, <<"education">>,
     <<"volunteer">>, <<"languages">>, <<"interests">>, <<"licenses">>, <<"projects">>,
     <<"summary">>, <<"profile">>, <<"skills">>, <<"awards">>, <<"honors">> >>

IsHeader(t) == Lowered(t) \in Range(SectionHeaders)

\* Where a heading in capitals stands in a line, unless a word of prose precedes it.
HeaderStarts(line, header) ==
  {i \in 1..(Len(line) - Len(header) + 1) :
     /\ \A k \in DOMAIN header : line[i + k - 1] \in Capitals /\ Lower[line[i + k - 1]] = header[k]
     /\ i > 1 => line[i - 1] \notin Prose}

\* The line cut around one heading, whose colon goes.
CutAround(line, header) ==
  LET starts == HeaderStarts(line, header)
      End(i) == IF i + Len(header) <= Len(line) /\ line[i + Len(header)] = ":"
                THEN i + Len(header) + 1 ELSE i + Len(header)
      pieces == CutBefore(line, starts \cup {End(i) : i \in starts})
      Bare(p) == IF Len(p) > 1 /\ Last(p) = ":" /\ Lowered(Front(p)) = header
                 THEN Front(p) ELSE p
  IN  IF starts = {} THEN <<line>> ELSE [k \in DOMAIN pieces |-> Bare(pieces[k])]

\* Around a heading of several words the pieces are searched for the shorter ones, too.
SplitGluedHeaders(line) ==
  FoldLeft(LAMBDA pieces, header :
             FlattenSeq([k \in DOMAIN pieces |-> CutAround(pieces[k], header)]),
           <<line>>, SectionHeaders)

\* How many of the lines after i complete a heading with it, 0 if none do.
Fragments(lines, i) ==
  LET Joined(w) == FlattenSeq(SubSeq(lines, i, i + w))
      Fit(w) == /\ i + w <= Len(lines)
                /\ \A k \in 1..w : /\ lines[i + k] # <<>> /\ Long(lines[i + k]) <= 20
                                   /\ Range(lines[i + k]) \subseteq Capitals
                /\ IsHeader(Joined(w))
      fits == {w \in 1..3 : Fit(w)}
  IN  IF lines[i] = <<>> \/ IsHeader(lines[i]) \/ fits = {} THEN 0 ELSE Min(fits)

MergeHeaderFragments(lines) ==
  FoldLeft(LAMBDA s, i :
             IF s.skip > 0 THEN [s EXCEPT !.skip = @ - 1]
             ELSE LET w == Fragments(lines, i)
                  IN  [out |-> Append(s.out, FlattenSeq(SubSeq(lines, i, i + w))), skip |-> w],
           [out |-> <<>>, skip |-> 0], [i \in DOMAIN lines |-> i]).out

\* Letters set apart are joined again, and bullets in any encoding are bullets.
Collapsed(line) == [i \in DOMAIN line |-> Repaired[line[i]]]

NormalizeResumeText(text) ==
  MergeHeaderFragments(FlattenSeq([k \in DOMAIN text |->
    IF text[k] = <<>> THEN <<text[k]>> ELSE SplitGluedHeaders(Collapsed(text[k]))]))

----------------------------------------------------------------------------
\* Sections.  A second section with the same heading replaces the first.

\* The heading of a line: the whole line, or what stands before its first colon.
Heading(line) ==
  LET bare == IF Ends(line, {":"}) THEN Front(line) ELSE line
      colons == {i \in DOMAIN line : line[i] = ":"}
      label == IF colons = {} THEN <<>> ELSE SubSeq(line, 1, Min(colons) - 1)
  IN  IF IsHeader(bare) THEN [name |-> Lowered(bare), rest |-> <<>>]
      ELSE IF IsHeader(label)
           THEN [name |-> Lowered(label), rest |-> SubSeq(line, Min(colons) + 1, Len(line))]
           ELSE [name |-> <<>>, rest |-> line]

SplitSections(lines) ==
  FoldLeft(LAMBDA s, line :
             LET h == Heading(line)
             IN  IF h.name # <<>>
                 THEN [s EXCEPT !.current = h.name,
                                !.sections[h.name] = NonEmpty(<<h.rest>>)]
                 ELSE IF s.current = <<>> THEN [s EXCEPT !.pre = Append(@, line)]
                 ELSE [s EXCEPT !.sections[s.current] = Append(@, line)],
           [current |-> <<>>, pre |-> <<>>,
            sections |-> [h \in Range(SectionHeaders) |-> <<>>]],
           NonEmpty(lines))

First(sections, keys) ==
  LET full == {k \in DOMAIN keys : sections[keys[k]] # <<>>}
  IN  IF full = {} THEN <<>> ELSE sections[keys[Min(full)]]

SkillKeys      == <<<<"skills">>, <<"technical", "skills">>, <<"core", "competencies">>,
                    <<"competencies">>>>
ExperienceKeys == <<<<"experience">>, <<"work", "experience">>,
                    <<"professional", "experience">>, <<"employment">>>>
EducationKeys  == <<<<"education">>, <<"academic", "background">>>>
ProjectKeys    == <<<<"projects">>, <<"personal", "projects">>, <<"key", "projects">>>>
CertKeys       == <<<<"certifications">>, <<"certificates">>, <<"licenses">>>>
SummaryKeys    == <<<<"summary">>, <<"professional", "summary">>, <<"objective">>,
                    <<"profile">>>>

IsBullet(line) == line[1] = "*" /\ Len(line) > 1
Unbulleted(line) ==
  LET words == {i \in DOMAIN line : line[i] # "*"}
  IN  IF words = {} THEN <<>> ELSE SubSeq(line, Min(words), Len(line))

\* A description is a sequence of paragraphs; a wrapped line continues the last.
AppendDescription(entry, line) ==
  IF entry.description # <<>> /\ ~Ends(Last(entry.description), Sentence \cup {":"})
  THEN [entry EXCEPT !.description = Append(Front(@), Last(@) \o line)]
  ELSE [entry EXCEPT !.description = Append(@, line)]

\* A fold over the lines of a section whose state is the entries so far: the
\* entry in progress is the last one.
InLast(entries, line) == [entries EXCEPT ![Len(entries)] = AppendDescription(@, line)]

Job(title, company, duration) ==
  [title |-> title, company |-> company, duration |-> duration, description |-> <<>>]

ThirdOf(cells) == IF Len(cells) >= 3 THEN cells[3] ELSE <<>>

JobOf(line) ==
  LET cells == Cells(line)
  IN  IF Len(cells) >= 2 THEN Job(cells[1], cells[2], ThirdOf(cells)) ELSE Job(line, <<>>, <<>>)

\* A line of the section goes on with the entry in progress.
Continues(entry, line) ==
  \/ line[1] \in Prose
  \/ /\ ~Has(line, {"|"})
     /\ \/ Long(line) > 60 \/ Ends(line, Sentence)
        \/ entry.description # <<>> /\ ~Ends(Last(entry.description), Sentence)

ParseExperienceSection(lines) ==
  FoldLeft(LAMBDA entries, line :
             IF IsBullet(line)
             THEN IF entries = <<>> THEN entries ELSE InLast(entries, Unbulleted(line))
             ELSE IF entries # <<>> /\ Continues(Last(entries), line) THEN InLast(entries, line)
             ELSE Append(entries, JobOf(line)),
           <<>>, lines)

Degree(degree, institution, year) ==
  [degree |-> degree, institution |-> institution, year |-> year]

DegreeOf(cells) == Degree(cells[1], IF Len(cells) >= 2 THEN cells[2] ELSE <<>>, ThirdOf(cells))

ParseEducationSection(lines) ==
  FoldLeft(LAMBDA entries, line :
             IF IsBullet(line) THEN entries
             ELSE IF Has(line, {"|"}) THEN Append(entries, DegreeOf(Cells(line)))
             ELSE IF Dated(line) /\ entries # <<>>
                  THEN [entries EXCEPT ![Len(entries)].year = line]
             ELSE IF /\ entries # <<>> /\ Last(entries).institution = <<>>
                     /\ Has(line, Institutions)
                  THEN [entries EXCEPT ![Len(entries)].institution = line]
             ELSE Append(entries, Degree(line, <<>>, <<>>)),
           <<>>, lines)

Bullets(line) == Cardinality({i \in DOMAIN line : line[i] = "*"})

ParseProjectsSection(lines) ==
  FoldLeft(LAMBDA entries, line :
             IF IsBullet(line)
             THEN IF entries = <<>> THEN entries ELSE InLast(entries, Unbulleted(line))
             ELSE IF entries # <<>> /\ Bullets(line) >= 2 THEN InLast(entries, line)
             ELSE IF Dated(line) THEN entries
             ELSE IF /\ entries # <<>>
                     /\ \/ Long(line) > 60 \/ Ends(line, Sentence \cup {","})
                        \/ Last(entries).description = <<>>
                  THEN InLast(entries, line)
             ELSE Append(entries, [name |-> line, description |-> <<>>]),
           <<>>, lines)

----------------------------------------------------------------------------
\* The document.

\* An experience "entry" that is a skill the extraction has put there.
IsOrphanSkill(entry) ==
  /\ entry.company = <<>> /\ entry.duration = <<>> /\ entry.description = <<>>
  /\ Long(entry.title) <= 30 /\ Len(Words(entry.title)) <= 3 /\ ~Has(entry.title, Numbers)

\* A "skill" that is a sentence the extraction has put there.
IsProse(item) ==
  \/ Long(item) > 45
  \/ Has(item, {"."})
  \/ Lower[item[1]] \in {"and", "with", "or", "that", "experience"}

\* A "project" that is a group of skills without a heading.
IsSkillPair(project) ==
  /\ Long(project.name) <= 40 /\ ~Has(project.name, Years)
  /\ Len(project.description) <= 2
  /\ \A k \in DOMAIN project.description :
       Long(project.description[k]) <= 40 /\ ~Ends(project.description[k], Sentence)

IsContact(line) == (\E i \in DOMAIN line : Contact[line[i]] # "no") \/ Lower[line[1]] = "address"

\* The lines before the first heading: the first with cells and a year is a job.
TitleIndex(pre) ==
  LET dated == {i \in DOMAIN pre : Has(pre[i], {"|"}) /\ Has(pre[i], Years)}
  IN  IF dated = {} THEN 0 ELSE Min(dated)

\* The job, its title cut behind the last sentence that runs into it.
EarlyJob(pre, i) ==
  LET cells  == Cells(pre[i])
      stops  == {k \in 1..(Len(cells[1]) - 1) : cells[1][k] = "."}
      prefix == IF stops = {} THEN <<>> ELSE SubSeq(cells[1], 1, Max(stops))
      own    == SelectSeq(SubSeq(pre, 1, i - 1), LAMBDA l : Long(l) > 40 /\ ~IsContact(l))
  IN  [Job(SubSeq(cells[1], Len(prefix) + 1, Len(cells[1])),
           IF Len(cells) >= 2 THEN cells[2] ELSE <<>>, ThirdOf(cells))
         EXCEPT !.description = own \o NonEmpty(<<prefix>>)]

WithoutJob(pre, i) ==
  SelectSeq(SubSeq(pre, 1, i - 1), LAMBDA l : Long(l) <= 40) \o SubSeq(pre, i + 1, Len(pre))

FirstContact(text, kind) ==
  LET found == SelectSeq(FlattenSeq(text), LAMBDA tok : Contact[tok] = kind)
  IN  SubSeq(found, 1, Min({1, Len(found)}))

\* The first six lines give the address and the title.
Opening(pre) == SubSeq(pre, 1, Min({6, Len(pre)}))

IsReach(line) == \E i \in DOMAIN line : Contact[line[i]] \in {"email", "phone"}

Title(pre) ==
  LET titles == SelectSeq(Opening(pre),
                          LAMBDA l : ~IsReach(l) /\ Long(l) <= 60 /\ ~Ends(l, {"."}))
  IN  IF titles = <<>> THEN <<>> ELSE titles[1]

Location(pre) ==
  LET reach == SelectSeq(Opening(pre), IsReach)
      cells == FlattenSeq([k \in DOMAIN reach |-> Cells(reach[k])])
      named == SelectSeq(cells, LAMBDA c : Len(c) > 2 /\ Lower[c[1]] = "address" /\ c[2] = ":")
  IN  IF named = <<>> THEN <<>> ELSE SubSeq(named[1], 3, Len(named[1]))

\* Mutant of SkillsOfProjects: of a pair only the name is kept.
SkillsOfProjectNames(projects, skills) ==
  FoldLeft(LAMBDA s, p :
             IF IsSkillPair(p) /\ s.skills # <<>>
             THEN [s EXCEPT !.skills = Append(@, p.name)]
             ELSE [s EXCEPT !.projects = Append(@, p)],
           [skills |-> skills, projects |-> <<>>], projects)

\* A pair is a skill only if skills are known when its turn comes.
SkillsOfProjects(projects, skills) ==
  FoldLeft(LAMBDA s, p :
             IF IsSkillPair(p) /\ s.skills # <<>>
             THEN [s EXCEPT !.skills = Append(@, p.name) \o p.description]
             ELSE [s EXCEPT !.projects = Append(@, p)],
           [skills |-> skills, projects |-> <<>>], projects)

BuildResumeData(text) ==
  LET lines    == NormalizeResumeText(text)
      split    == SplitSections(Tail(lines))
      Sec(k)   == First(split.sections, k)
      i        == TitleIndex(split.pre)
      pre      == IF i = 0 THEN split.pre ELSE WithoutJob(split.pre, i)
      parsed   == ParseExperienceSection(Sec(ExperienceKeys))
      listed   == FlattenSeq([k \in DOMAIN Sec(SkillKeys) |->
                                Split(Sec(SkillKeys)[k], {",", "*", "|"})])
      orphans  == SelectSeq(parsed, IsOrphanSkill)
      items    == listed \o [k \in DOMAIN orphans |-> orphans[k].title]
      moved    == SkillsOfProjects(ParseProjectsSection(Sec(ProjectKeys)),
                                   SelectSeq(items, LAMBDA t : ~IsProse(t)))
      summary  == FlattenSeq(Sec(SummaryKeys))
      prose    == SelectSeq(pre, LAMBDA l : Long(l) > 40)
      certs    == Sec(CertKeys)
  IN  [name       |-> lines[1],
       contact    |-> [k \in {"email", "phone", "linkedin", "github"} |-> FirstContact(lines, k)],
       location   |-> Location(split.pre),
       title      |-> Title(split.pre),
       summary    |-> IF summary # <<>> THEN summary
                      ELSE IF prose # <<>> THEN FlattenSeq(prose)
                      ELSE FlattenSeq(SelectSeq(items, IsProse)),
       skills     |-> moved.skills,
       experience |-> (IF i = 0 THEN <<>> ELSE <<EarlyJob(split.pre, i)>>)
                        \o SelectSeq(parsed, LAMBDA e : ~IsOrphanSkill(e)),
       education  |-> ParseEducationSection(Sec(EducationKeys)),
       certifications |-> NonEmpty([k \in DOMAIN certs |-> Unbulleted(certs[k])]),
       projects   |-> moved.projects]
=============================================================================

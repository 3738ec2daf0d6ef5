---------------------------- MODULE ProfileDraft ----------------------------
(***************************************************************************)
(* What an uploaded resume tells about its owner: the parser's sections,   *)
(* contact details and skills (core/documents/parser.py), the draft of a   *)
(* profile made of them and of the model's answer                          *)
(* (api/v1/candidate_profile.py), and the data that fill the profile       *)
(* editor (api/v1/resumes.py).  Texts are those of ResumeText.             *)
(***************************************************************************)
EXTENDS ResumeText, SequencesExt, FiniteSetsExt

Contacts == {"email", "phone", "linkedin", "github"}

----------------------------------------------------------------------------
\* The parser.  Only a line that is nothing but a heading opens a section.

HeadingOnly(line) ==
  LET bare == IF Ends(line, {":"}) THEN Front(line) ELSE line
  IN  IF bare # <<>> /\ IsHeader(bare) THEN Lowered(bare) ELSE <<>>

\* The sections found, in a function from their headings to their lines.
ExtractSections(text) ==
  FoldLeft(LAMBDA s, line :
             LET name == HeadingOnly(line)
             IN  IF name # <<>>
                 THEN [current |-> name,
                       found |-> [h \in DOMAIN s.found \cup {name} |->
                                    IF h = name THEN <<>> ELSE s.found[h]]]
                 ELSE IF s.current = <<>> THEN s
                 ELSE [s EXCEPT !.found[s.current] = Append(@, line)],
           [current |-> <<>>, found |-> [h \in {} |-> <<>>]], text).found

\* The first of the headings that is there, empty or not.
FirstFound(found, keys) ==
  LET there == {k \in DOMAIN keys : keys[k] \in DOMAIN found}
  IN  IF there = {} THEN <<>> ELSE found[keys[Min(there)]]

ExtractContactInfo(text) == [k \in Contacts |-> FirstContact(text, k)]

\* A line is cut at the first kind of mark it has; without one it is a skill
\* itself, unless it is long.
SkillsOfLine(line) ==
  CASE Has(line, {","}) -> Split(line, {","})
    [] ~Has(line, {","}) /\ Has(line, {"|"}) -> Split(line, {"|"})
    [] ~Has(line, {",", "|"}) /\ Has(line, {"*"}) -> Split(line, {"*"})
    [] OTHER -> IF Long(line) < 60 THEN NonEmpty(<<line>>) ELSE <<>>

\* The same in lower case, the first spelling kept; single characters are dropped.
Deduplicated(items) ==
  FoldLeft(LAMBDA unique, item :
             IF Long(item) <= 1 \/ \E k \in DOMAIN unique : Lowered(unique[k]) = Lowered(item)
             THEN unique ELSE Append(unique, item),
           <<>>, items)

\* Without a skills section the whole text is looked through.
ExtractSkillsFromText(text) ==
  LET section == NonEmpty(FirstFound(ExtractSections(text), SkillKeys))
      lines   == IF section = <<>> THEN NonEmpty(text) ELSE section
  IN  Deduplicated(FlattenSeq([k \in DOMAIN lines |-> SkillsOfLine(lines[k])]))

Parse(text) == [text |-> text, contact |-> ExtractContactInfo(text),
                skills |-> ExtractSkillsFromText(text)]

----------------------------------------------------------------------------
\* The draft: values with the confidence they are given, in hundredths.

Wrap(value, confidence) ==
  [value |-> value, confidence |-> IF value = <<>> THEN 0 ELSE confidence]

\* The model's answer: contact details and a sequence of skills.
LlmToDraft(answer) ==
  [contact |-> [k \in Contacts |-> Wrap(answer.contact[k], 99)],
   skills  |-> [k \in DOMAIN answer.skills |-> Wrap(answer.skills[k], 95)],
   summary |-> "model's"]

\* What the parser has found and the model has missed is added.
Supplemented(draft, parsed) ==
  [draft EXCEPT
     !.contact = [k \in Contacts |->
                    IF draft.contact[k].value = <<>> THEN Wrap(parsed.contact[k], 99)
                    ELSE draft.contact[k]],
     !.skills = @ \o LET missed == SelectSeq(parsed.skills, LAMBDA s :
                                    ~\E k \in DOMAIN draft.skills :
                                       Lowered(draft.skills[k].value) = Lowered(s))
                     IN  [k \in DOMAIN missed |-> Wrap(missed[k], 70)]]

FallbackSkills == 30

\* Without the model: what the parser has found, the text as the summary.
FallbackFromParsed(parsed) ==
  [contact |-> [k \in Contacts |-> Wrap(parsed.contact[k], 99)],
   skills  |-> [k \in 1..Min({FallbackSkills, Len(parsed.skills)}) |->
                  Wrap(parsed.skills[k], 70)],
   summary |-> "text"]

----------------------------------------------------------------------------
\* The profile editor.

\* The first line that is no heading found and holds no address or link.
FullName(text, found) ==
  LET named == SelectSeq(NonEmpty(text), LAMBDA l :
                 /\ HeadingOnly(l) \notin DOMAIN found
                 /\ \A i \in DOMAIN l : Contact[l[i]] = "no")
  IN  IF named = <<>> THEN <<>> ELSE named[1]

ExtractProfile(text) ==
  LET found == ExtractSections(text)
      certs == NonEmpty(FirstFound(found, CertKeys))
  IN  [name    |-> FullName(text, found),
       contact |-> ExtractContactInfo(text),
       summary |-> FlattenSeq(FirstFound(found, <<<<"summary">>, <<"objective">>,
                                <<"professional", "summary">>, <<"profile">>>>)),
       skills  |-> ExtractSkillsFromText(text),
       certifications |-> [k \in DOMAIN certs |-> Unbulleted(certs[k])]]
=============================================================================

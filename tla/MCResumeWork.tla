---------------------------- MODULE MCResumeWork ----------------------------
\* A small instance of ResumeWork for TLC.
EXTENDS MCAssessment, ResumeWork
LOCAL INSTANCE SequencesExt
LOCAL INSTANCE FiniteSetsExt

Glyphs   == {"|", ",", ".", ":", "*"}
Headings == {"WORK", "EXPERIENCE", "SKILLS", "PROJECTS", "KEY", "EDUCATION", "SUMMARY"}
Sentences == {"Built", "Moved", "Ran"}
Plain    == {"Ali", "Clerk", "Analyst", "Acme", "Birch", "Docker", "DOCKER", "Excel", "Riyadh",
             "Portal", "Ledger", "Maps", "Bsc", "Address", "mail", "2020", "Spaced", "College"}
Spoken   == {"of", "and"}
Tokens   == Glyphs \cup Headings \cup Sentences \cup Plain \cup Spoken

\* The lower case of a token is itself unless another token has the same.
MCLower == [t \in Tokens |->
              CASE t = "WORK" -> "work" [] t = "EXPERIENCE" -> "experience"
                [] t = "SKILLS" -> "skills" [] t = "PROJECTS" -> "projects"
                [] t = "KEY" -> "key" [] t = "EDUCATION" -> "education"
                [] t = "SUMMARY" -> "summary" [] t = "DOCKER" -> "Docker"
                [] t = "Address" -> "address" [] OTHER -> t]
MCWidth == [t \in Tokens |->
              CASE t \in {",", ".", ":"} -> 1 [] t \in {"|", "*"} -> 2
                [] t \in Sentences -> 42 [] OTHER -> 8]
MCRepaired == [t \in Tokens |-> IF t = "Spaced" THEN "EDUCATION" ELSE t]
MCCapitals == Glyphs \cup Headings \cup {"2020", "DOCKER"}
MCContact  == [t \in Tokens |-> IF t = "mail" THEN "email" ELSE "no"]

\* Resumes whose lines share no words, so that every word has one place to be.
Openings == {<<>>, << <<"Analyst">>, <<"Address", ":", "Riyadh", "|", "mail">> >>,
             << <<"Ran", ".", "Analyst", "|", "Birch", "|", "2020">> >>}
Jobs     == {<<>>, << <<"Clerk", "|", "Acme", "|", "2020">>, <<"*", "Built">>, <<"of", "Maps">> >>,
             << <<"*", "Moved">>, <<"Clerk">>, <<"Built", ".">> >>,
             << <<"Clerk", "|", "Acme">>, <<"Excel">> >>,
             << <<"Clerk", "|", "Acme", "|", "2020", "|", "Riyadh">> >>}
Projects == {<<>>, << <<"Portal">>, <<"*", "Moved", ".">>, <<"Ledger">> >>,
             << <<"2020">>, <<"Portal">>, <<"Ledger">> >>}
Skills   == {<<>>, << <<"Docker", ",", "DOCKER">> >>, << <<"and", "College">> >>}

Section(heading, lines) == IF lines = <<>> THEN <<>> ELSE heading \o lines

MCResumes ==
  {<< <<"Ali">> >> \o d[1] \o Section(<< <<"EXPERIENCE">> >>, d[2])
     \o Section(<< <<"PROJECTS">> >>, d[3]) \o Section(<< <<"SKILLS">> >>, d[4]) :
     d \in {e \in Openings \X Jobs \X Projects \X Skills : e[1] = <<>> \/ e[3] = <<>>}}
  \cup {<< <<"Ali">>, <<"Spaced">>, <<"Bsc", "|", "College">>, <<"KEY", "PROJECTS">>, <<"Portal">>,
           <<"SUMMARY", ":">>, <<"Ran", ".">> >>}

MCUploads == {<< <<"Ali">>, <<"mail">>, <<"SKILLS">>, <<"Docker", ",", "DOCKER", "|", "Excel">>,
                 <<"Maps">> >>,
              << <<"Ali", "|", "Riyadh">>, <<"SUMMARY">>, <<"Ran">> >>,
              << <<"Ali">>, <<"EXPERIENCE", "SKILLS">>, <<"*", "Maps", "*", "Excel">> >>}
MCExtractions == [contact : {[k \in Contacts |-> <<>>], [k \in Contacts |-> <<"model's">>]},
                  skills : {<<>>, << <<"DOCKER">> >>}]

----------------------------------------------------------------------------
MCVariations == [s \in {"python", "docker", "terraform", "c++"} |->
                   CASE s = "python" -> {"python", "py"} [] s = "c++" -> {"c++", "cpp"}
                     [] OTHER -> {s}]
MCBounded == {"python", "py", "docker", "terraform", "cpp"}
MCFuzzyPairs == {{"docker", "dockers"}}
MCSimilarPairs == {{"docker", "dockers"}, {"python", "pytorch"}}
MCFrequencyWeight == [n \in 1..2 |-> IF n = 1 THEN 169 ELSE 210]
MCIndustries == <<[name |-> "cloud", weights |-> [t \in {"terraform", "docker"} |-> 100]],
                  [name |-> "data", weights |-> [t \in {"sql", "python"} |-> 90]]>>
MCSeniorityTerms == <<[level |-> "entry", terms |-> {"junior"}],
                      [level |-> "senior", terms |-> {"senior", "lead"}]>>

MCScoredTexts == {<<>>, <<"py">>, <<"docker", "experience", "lead">>,
                  <<"terraform", "skills", "education", "sql">>}
JobText(words, required, preferred, keywords, phrases) ==
  [words |-> words, required |-> required, preferred |-> preferred, keywords |-> keywords,
   phrases |-> phrases, years |-> 4]
MCJobTexts ==
  {JobText(<<>>, <<"python", "pytorch">>, <<>>, [k \in {} |-> 1], {}),
   JobText(<<"master", "python", "sql", "lead">>, <<"dockers", "py">>, <<"terraform">>,
           [k \in {"python", "sql"} |-> 2], {"lead"}),
   JobText(<<"ba", "terraform", "docker", "junior">>, <<"python">>,
           <<"docker", "sql", "pytorch">>, [k \in {"python"} |-> 1], {}),
   JobText(<<"c++", "sql">>, <<"c++", "cpp">>, <<>>, [k \in {"c++"} |-> 1], {}),
   JobText(<<"terraform">>, <<>>, <<>>, [k \in {"terraform"} |-> 1], {})}
MCHistories ==
  {[experience |-> <<>>, degrees |-> {}],
   [experience |-> <<[years |-> 6, title |-> {"lead"}, text |-> {"docker"}],
                     [years |-> 1, title |-> {"junior"}, text |-> {}]>>,
    degrees |-> {"bachelor"}],
   [experience |-> <<[years |-> 11, title |-> {}, text |-> {"lead"}]>>, degrees |-> {"phd"}]}

----------------------------------------------------------------------------
Listing(platform, id, url) == [platform |-> platform, id |-> id, url |-> url]
Listings == {Listing(p, i, u) : p \in {"bayt"}, i \in {"", "7"}, u \in {"", "/a", "/b"}}
Answers  == {[failed |-> f, listings |-> <<l, m>>] : f \in BOOLEAN, l, m \in Listings}

MCBoards ==
  {[existing |-> e, platforms |-> <<a, [failed |-> FALSE, listings |-> <<Listing("indeed", "7", "")>>]>>,
    meanwhile |-> w] :
     e \in {{}, {Key(Listing("bayt", "7", ""))}, {Key(Listing("bayt", "", ""))}},
     w \in {{}, {Key(Listing("bayt", "", "/a"))}}, a \in Answers}

Route(id, type, preferred, at) == [id |-> id, type |-> type, is_preferred |-> preferred, at |-> at]
Package(qa, email, route) == [resume |-> TRUE, letter |-> TRUE, email |-> email, qa |-> qa,
                              route |-> route, approved |-> qa = "passed"]
MCCards ==
  [analysed : {FALSE}, scored : BOOLEAN,
   sessions : {{}, {[status |-> "verified", final_resume |-> "r1", at |-> 1],
                    [status |-> "draft", final_resume |-> "none", at |-> 2]}},
   resumes : {{}, {[id |-> "r1", text |-> TRUE, file |-> TRUE, at |-> 1]}},
   packages : {{}, {Package("passed", FALSE, "e")}, {Package("blocked", TRUE, "none")}},
   routes : {{}, {Route("e", "EMAIL", FALSE, 1), Route("f", "FORM", TRUE, 2)},
             {Route("f", "FORM", FALSE, 2)}}]
MCAdverts ==
  [company : {"", "Acme"}, short : {FALSE}, doubtful : {FALSE}, suspicious : {{}, {"fee"}},
   emails : {<<>>, <<"hr@acme", "x@free">>}, routes : {<<>>, <<"", "x@free">>}]
=============================================================================

---------------------------- MODULE MCAssessment ----------------------------
\* A small instance of Assessment for TLC.
EXTENDS Assessment

MCPrimary == "primary"
MCFallbacks == <<"primary at another provider">>

Evidence(id, name, depth, clusters) == [id |-> id, name |-> name, depth |-> depth,
                                        clusters |-> clusters]

MCCandidates ==
  {[nationality |-> n, iqama_transferable |-> FALSE, city |-> "riyadh",
    willing_to_relocate |-> FALSE,
    evidence |-> <<Evidence("exp-1", NoSkill, FALSE, {"monitoring"}),
                   Evidence("skill-1", "python", d, {"automation"})>>] :
     n \in {"saudi"}, d \in BOOLEAN}

Said(marks, names, clusters) == [marks |-> marks, names |-> names, clusters |-> clusters]

AskedDegree == Said({"must", "degree"}, {}, {})
Duty        == Said({"duty"}, {}, {"monitoring"})
Python      == Said({"must", "depth"}, {"python"}, {"automation"})
Telecom     == Said({"telecom"}, {}, {})

MCPostings == {[requirements |-> r, country |-> "saudi arabia", city |-> "jeddah",
                work_model |-> "onsite"] : r \in {<<>>, <<AskedDegree, Duty>>}}

Proposed(text, importance, status, type, ids) ==
  [text |-> text, importance |-> importance, status |-> status, type |-> type, ids |-> ids]

Requirements ==
  {Proposed(t, i, s, y, ids) :
     t \in {AskedDegree, Duty, Python, Telecom}, i \in {"CRITICAL", "LOW"},
     s \in {"MATCH", "PARTIAL", "GAP"}, y \in {"DIRECT", "WEAK", "UNKNOWN"},
     ids \in {{}, {"exp-1"}, {"invented"}}}

Pairs == {<<Proposed(AskedDegree, "CRITICAL", "MATCH", "UNKNOWN", ids), r>> :
            ids \in {{}, {"invented", "exp-1"}},
            r \in {q \in Requirements : q.text = Duty}}

Proposal(reqs, dims) == [verdict |-> "GOOD_MATCH", recommendation |-> "apply",
                         reqs |-> reqs, dimensions |-> dims]

MCProposals ==
  {Proposal(<<r>>, <<NoScore, NoScore, NoScore>>) : r \in Requirements}
    \cup {Proposal(p, <<NoScore, NoScore, NoScore>>) : p \in Pairs}
    \cup {Proposal(<<>>, d) : d \in {<<NoScore, NoScore, NoScore>>, <<1, 1, NoScore>>,
                                     <<100, 71, 170>>}}

MCProfiles == {[identity |-> i, experience |-> {"exp-1"}, education |-> {}] :
                 i \in {{}, {"first", "email", "salary"}}}

MCQuestions == [prefilled : BOOLEAN, required : BOOLEAN, input_type : {"text", "file"},
                words : {{}, {"first"}, {"last", "email"}, {"resume"}, {"linkedin"}, {"salary"}}]

MCReplies == [ids : SUBSET {"exp-1", "invented"}, confidence : {0, 50, 70, 100}]

\* Two employers a letter apart, and the words a draft may use for them.
MCFolded == [w \in {"Acme", "ACME", "Acne", "Acmee", "Corp", "at"} |->
               CASE w \in {"Acme", "ACME"} -> "acme" [] w = "Acne" -> "acne"
                 [] w = "Acmee" -> "acmee" [] w = "Corp" -> "corp" [] w = "at" -> "at"]
MCAlike == {{"acme", "acne"}, {"acme", "acmee"}, {"acne", "acmee"}}
MCNames == <<<<"Acme", "Corp">>, <<"Acne", "Corp">>>>

MCDrafts == {[words |-> w, sane |-> s] :
               w \in UNION {[1..n -> DOMAIN MCFolded] : n \in 2..3}, s \in {TRUE}}
              \cup {[words |-> <<"at">>, sane |-> FALSE]}

\* Month 24 is the first of year 2.
Finding(severity, future, ends, degree) == [severity |-> severity, says_future |-> future,
                                            ends |-> ends, doubts_degree |-> degree]
EndDates == {<<>>} \cup {<<[kind |-> k, at |-> a]>> : k \in {"month", "year"}, a \in {1, 2, 3, 24, 25}}
          \cup {<<[kind |-> "present", at |-> 0], [kind |-> "unknown", at |-> 0]>>}
MCFindings == {{}} \cup {{Finding(s, f, e, d)} : s \in {"info", "warning", "blocker"},
                          f, d \in BOOLEAN, e \in EndDates}
MCDegrees == {"bsc"}
=============================================================================

------------------------------- MODULE MCIntake -------------------------------
EXTENDS Intake, TLC

\* A source as the model may extract it: with a link to a page of an applicant tracking
\* system other than the one that was read and an e-mail address, or with the same page.
MCPostings == {
    [apply |-> "ats1", email |-> TRUE, page |-> "ats2", model |-> "none"],
    [apply |-> "ats2", email |-> FALSE, page |-> "ats2", model |-> "none"]}
MCContents == {"c"}
MCSymmetry == Permutations(Req) \cup Permutations(Worker)
=============================================================================

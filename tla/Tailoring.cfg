\* Two overlapping requests that may be cut off; two sessions.
SPECIFICATION Spec
CONSTANTS
    Req = {r1, r2}
    MaxChanges = 2
    MaxSessions = 1
    MaxResumes = 3
    Library <- MCLibrary
    Proposals <- MCProposals
    Answers = {"accepted", "rejected"}
    Crashes = TRUE
INVARIANTS UsedWasReviewed UnfinishedIsWorkedOn MergeIsPointwise
SYMMETRY Symmetry
CHECK_DEADLOCK FALSE

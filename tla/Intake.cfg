SPECIFICATION Spec
CONSTANTS
    Req = {r1, r2}
    Worker = {w1}
    MaxRows = 2
    MaxJobs = 2
    MaxDeaths = 1
    MaxOverrides = 1
    Postings <- MCPostings
    Contents <- MCContents
    Preferences = {"WORKABLE"}
INVARIANT ProcessingIsServed
INVARIANT PreferredIsClear
PROPERTY OverrideKept
SYMMETRY MCSymmetry
CHECK_DEADLOCK FALSE

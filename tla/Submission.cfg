\* Two requests overlap and may die; the package flow grants and spends approvals too.
SPECIFICATION Spec
CONSTANTS
    a1 = a1
    a2 = a2
    Req = {r1, r2}
    ApprId = {a1, a2}
    MaxRuns = 3
    HashVal = {h1}
    OtherStatus = {"applied", "submitting"}
    MaxSends = 1
    MaxMishaps = 1
    Crashes = TRUE
    NoAppr = NoAppr
    NoHash = NoHash
INVARIANTS TypeOK SubmittedWasPrepared AppliedWasConfirmed SpentIsAccounted
INVARIANT SubmittingIsWorkedOn
PROPERTY ImplementsLedger
SYMMETRY Symmetry
CHECK_DEADLOCK FALSE

\* Two requests of one user overlap, and may die at any await.
SPECIFICATION Spec
CONSTANTS
    apkg = apkg
    bpkg = bpkg
    wpkg = wpkg
    ppkg = ppkg
    npkg = npkg
    ha = ha
    hb = hb
    hp = hp
    hn = hn
    Req = {r1, r2}
    PkgId = {p1, p2, p3}
    ApprId = {a1}
    Content = {apkg, ppkg}
    HashVal <- MCHashVal
    Hash <- MCHash
    EmailRoute <- MCEmail
    WithRecipient <- MCEmail
    Mailable <- MCEmail
    Incomplete <- MCIncomplete
    InitStatus = {"pending_review"}
    InitRun = {"answered"}
    ModelVerdict = {"warning"}
    OtherStatus = {}
    Crashes = TRUE
    NoPkg = NoPkg
    NoAppr = NoAppr
    NoContent = NoContent
    NoHash = NoHash
SYMMETRY Symmetry
INVARIANTS TypeOK SentWasApproved ClaimsHaveEvidence NewestIsCurrent

\* One request at a time, which may die at any await: what the code relies on.
SPECIFICATION Spec
CONSTANTS
    apkg = apkg
    bpkg = bpkg
    wpkg = wpkg
    ppkg = ppkg
    npkg = npkg
    ha = ha
    hb = hb
    hp = hp
    hn = hn
    Req = {r1}
    PkgId = {p1, p2, p3}
    ApprId = {a1, a2}
    Content = {apkg, wpkg, ppkg}
    HashVal <- MCHashVal
    Hash <- MCHash
    EmailRoute <- MCEmail
    WithRecipient <- MCEmail
    Mailable <- MCEmail
    Incomplete <- MCIncomplete
    InitStatus = {"pending_review"}
    InitRun = {"none"}
    ModelVerdict = {"blocked"}
    OtherStatus = {"withdrawn"}
    Crashes = TRUE
    NoPkg = NoPkg
    NoAppr = NoAppr
    NoContent = NoContent
    NoHash = NoHash
SYMMETRY Symmetry
INVARIANTS OneCurrentVersion UniqueLiveApproval
PROPERTIES SentIsFinal ImplementsLedger

\* Two overlapping requests spend one approval.
SPECIFICATION Spec
CONSTANTS
    apkg = apkg
    bpkg = bpkg
    wpkg = wpkg
    ppkg = ppkg
    npkg = npkg
    ha = ha
    hb = hb
    hp = hp
    hn = hn
    Req = {r1, r2}
    PkgId = {p1}
    ApprId = {a1}
    Content = {apkg}
    HashVal <- MCHashVal
    Hash <- MCHash
    EmailRoute <- MCEmail
    WithRecipient <- MCEmail
    Mailable <- MCEmail
    Incomplete <- MCIncomplete
    InitStatus = {"pending_review"}
    InitRun = {"answered"}
    ModelVerdict = {"warning"}
    OtherStatus = {}
    Crashes = FALSE
    NoPkg = NoPkg
    NoAppr = NoAppr
    NoContent = NoContent
    NoHash = NoHash
INVARIANT SingleUse

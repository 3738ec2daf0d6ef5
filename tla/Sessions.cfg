\* Two overlapping requests on an account with up to two families of tokens.
SPECIFICATION Spec
CONSTANTS
    Req = {r1, r2}
    Token = {t1, t2, t3}
    Family = {f1, f2}
    Reset = {x1}
    MaxResets = 2
    NoToken = NoToken
    NoFamily = NoFamily
INVARIANTS OneUsableTokenPerFamily CutFamiliesStayCut
PROPERTY DeletedOnlyEnds
SYMMETRY Symmetry
CHECK_DEADLOCK FALSE

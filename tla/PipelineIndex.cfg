\* Two applications to one job: the partial unique index.
SPECIFICATION Spec
CHECK_DEADLOCK FALSE
CONSTANTS
    j1 = j1
    j2 = j2
    x1 = x1
    x2 = x2
    Req = {r1}
    App = {x1, x2}
    Job = {j1}
    MaxTries = 1
    UserStatus = {"withdrawn"}
    Kills = TRUE
    NoApp = NoApp
    JobOf <- MCSameJob
SYMMETRY Symmetry
INVARIANTS TypeOK OneAppliedPerJob

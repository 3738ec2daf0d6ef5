\* One application; workers die, retry and time out.
SPECIFICATION FairSpec
CONSTANTS
    j1 = j1
    j2 = j2
    x1 = x1
    x2 = x2
    Req = {r1}
    App = {x1}
    Job = {j1}
    MaxTries = 2
    UserStatus = {"withdrawn", "interview"}
    Kills = TRUE
    NoApp = NoApp
    JobOf <- MCSameJob
INVARIANTS BoundedAttempts CompletedNotResubmitted
PROPERTIES JobsEnd ApplyingResolves

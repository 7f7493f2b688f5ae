\* One call at a time: a check-in over a source that has not been tested.
CONSTANTS
    a1 = a1
    a2 = a2
    x1 = x1
    x2 = x2
    none = none
    up = up
    down1 = down1
    down2 = down2
    down3 = down3
    tls = tls
    odd = odd
    runtime = runtime
    chosen = chosen
    old = old
    new = new
    Parts = {"sources"}
    Actors = {a1}
    Things = {x1, x2}
    MaxIncidents = 2
    MaxAlerts = 1
    MaxUptimeCalls = 5
    MaxUptimeChanges = 1
    QueueLimit = 1
    MaxActivities = 2
    MaxUpdates = 2
    MaxKeys = 2
    MaxAccesses = 4
    Window = 1
    Keep = 2
    Limit = 1
    Skews = {0, 1}
    MaxVersion = 2
    MaxTime = 3
    BackupBound = 3
    MonthBound = 2
    Invitations = {1, 2}
    Links = {1}
    Sessions = {1}
    MaxSignIns = 5
    ChallengeBound = 3
    Purposes = {"login", "step-up"}
    MaximumAttempts = 1
    IssueLimit = 2
    FaultBound = 1
SYMMETRY Symmetry
SPECIFICATION Spec
CHECK_DEADLOCK FALSE
INVARIANT ReadyWasTested

\* One worker that never fails; the entitlement lapses and returns.
CONSTANTS
    a1 = a1
    a2 = a2
    x1 = x1
    x2 = x2
    nobody = nobody
    Parts = {"checkups"}
    Actors = {a1}
    Things = {x1, x2}
    Interval = 2
    Limit = 1
    MaxSchedulerClock = 4
    MaxCredentials = 3
    MaxRequests = 3
    FirstDue = 1
    Year = 2
    MaxAttempts = 2
    MaxCheckupClock = 4
    MaxFaults = 0
    MaxChanges = 2
    MaxVersions = 3
    MaxOperations = 5
    MaxRank = 2
    Exceptions = {2}
    MaxOverrides = 2
    MaxPlanClock = 1
    MaxPlanChanges = 3
    Destinations = 2
    Chunk = 2
    MaxSize = 5
    Lifetimes = {1, 3}
    Shortest = 3
    Margin = 1
    StaticEnds = {2}
    MaxUploadTime = 3
    MaxDamages = 1
    Addresses = {1, 2}
    Categories = {"uptime", "backup"}
    Category = "uptime"
    MaxRecipients = 2
    MaxSecrets = 2
    MaxNotifications = 3
    PageSize = 1
    MaxPages = 2
    MaxSyncs = 2
    MaxMoves = 1
    Clients = {1, 2}
    Names = {1, 2}
    LastVersion = 2
    Throttle = 1
    MaxSiteClock = 2
    MaxReports = 3
SPECIFICATION FairSpec
CHECK_DEADLOCK FALSE
PROPERTIES
    AnnualCheckupHappens

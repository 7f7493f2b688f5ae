\* Two actors in every part; the bounds of each part are its own.
CONSTANTS
    a1 = a1
    a2 = a2
    x1 = x1
    x2 = x2
    nobody = nobody
    Parts = {"schedules", "credentials", "checkups", "reviews", "plans", "archives", "recipients", "settings", "hosting", "registry", "inventory"}
    Actors = {a1, a2}
    Things = {x1, x2}
    Interval = 2
    Limit = 1
    MaxSchedulerClock = 4
    MaxCredentials = 3
    MaxRequests = 2
    FirstDue = 1
    Year = 2
    MaxAttempts = 2
    MaxCheckupClock = 4
    MaxFaults = 2
    MaxChanges = 1
    MaxVersions = 3
    MaxOperations = 4
    MaxRank = 2
    Exceptions = {2}
    MaxOverrides = 2
    MaxPlanClock = 1
    MaxPlanChanges = 2
    Destinations = 2
    Chunk = 2
    MaxSize = 5
    Lifetimes = {1, 3}
    Shortest = 3
    Margin = 1
    StaticEnds = {2}
    MaxUploadTime = 3
    MaxDamages = 1
    Addresses = {1, 2}
    Categories = {"uptime", "backup"}
    Category = "uptime"
    MaxRecipients = 2
    MaxSecrets = 2
    MaxNotifications = 3
    PageSize = 1
    MaxPages = 2
    MaxSyncs = 2
    MaxMoves = 1
    Clients = {1, 2}
    Names = {1, 2}
    LastVersion = 2
    Throttle = 1
    MaxSiteClock = 2
    MaxReports = 3
SYMMETRY Symmetry
SPECIFICATION Spec
CHECK_DEADLOCK FALSE
INVARIANTS
    InventorySound
    SitesSound
    NotificationsSound
    PackageSound
    OncePerPeriod
    AccessFollowsCredential
    YearlyWithReview
    RestsOnPublished
    PlansSound
PROPERTIES
    DueUntilEnqueued
    PublishedUnlessOverlapped

\* Two actors in every part, three in a rollout; the bounds of each part are its own.
CONSTANTS
    a1 = a1
    a2 = a2
    b1 = b1
    b2 = b2
    x1 = x1
    x2 = x2
    none = none
    main = main
    runtime = runtime
    Parts = {"rollouts", "destinations", "zone", "security", "packages", "restores", "evidence"}
    Actors = {a1, a2}
    Admins = {b1, b2}
    Crews = {{a1, a2, b1}, {a1, a2, b2}, {a1, b1, b2}, {a2, b1, b2}}
    MaxEvents = 3
    TargetCount = 2
    Ready = {1, 2}
    Selected = {1, 2}
    CanarySize = 1
    FailureThreshold = 1
    ConcurrencyLimit = 1
    Things = {x1}
    Archives = {x1, x2}
    Inspected = {x1}
    Tokens = {1}
    Life = 1
    AttemptBound = 2
    FaultBound = 1
    MaxDestinationErrands = 2
    MaxMinutes = 1
    MaxChecks = 2
    MaxZoneErrands = 2
    MaxZoneChanges = 1
    MaxEvidenceTime = 3
    MaxPackageTime = 2
    MaxDamages = 1
    DerivedDays = 2
    ConfirmedDays = 1
    MaxRecoveryTime = 3
    MaxRecoveryErrands = 3
SYMMETRY Symmetry
SPECIFICATION Spec
CHECK_DEADLOCK FALSE
INVARIANTS
    JobsWaitTheirTurn
    ShownAsUpdated
    DestinationsSound
    ZoneSound
    ControlsSound
    PackagesSound
    RecoveriesSound
PROPERTIES
    EndedJobKept

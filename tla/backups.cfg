SPECIFICATION Spec
CONSTANTS
    Interval = 1
    Retention = 2
    TempGrace = 2
    MaxBackoff = 1
    UploadEnabled = TRUE
    MaxTime = 5
    MaxDuration = 1
    MaxBackups = 3
    MaxFaults = 1
    MaxCrashes = 1
INVARIANTS
    MarkerMeansStored
    SpacedByInterval
PROPERTIES
    NewestValidPreserved
    UploadSourceKept
CHECK_DEADLOCK FALSE

SPECIFICATION Spec
CONSTANTS
    Latest = 2
    Schema = 2
    KeepBackups = 2
    Drivers <- BothDrivers
    MaxBoots = 5
INVARIANTS
    AppliedExactlyOnce
    ImportedAtMostOnce
    MarkerMeansSaved
    PristineBackupKept
CHECK_DEADLOCK FALSE

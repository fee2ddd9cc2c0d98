\* Every interleaving, with a disk that may fail.
\* A behaviour ends when its commits and restarts are used up.
SPECIFICATION FairSpec
CONSTANTS
    None = None
    Remove = Remove
    RateLimited = TRUE
    DiskFaults = TRUE
    MaxCommits = 4
    MaxBoots = 2
INVARIANTS TypeOK PendingHasTimer NewestCleanIsHeld EndedNeverComesBackLive DeletedStaysDeleted
PROPERTIES KeepsDurableTable FileNeverGoesBack WritesAreSpaced ShutdownLosesNothing PendingIsWritten
CHECK_DEADLOCK FALSE

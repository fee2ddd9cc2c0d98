\* A table restarted twice.
SPECIFICATION Spec
CONSTANTS
    None = None
    Remove = Remove
    RateLimited = TRUE
    DiskFaults = FALSE
    MaxCommits = 3
    MaxBoots = 2
PROPERTIES SeqGrowsWithinGeneration
CHECK_DEADLOCK FALSE

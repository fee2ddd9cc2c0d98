\* Undos charged to a seat between two refreshes.
SPECIFICATION HSpec
CONSTANTS
    h1 = h1
    h2 = h2
    b1 = b1
    Nil = Nil
    NoClone = NoClone
    Humans <- MCHumans
    Bots <- MCNoBots
    Effects <- TurnEffects
    Limits <- OneLimit
    SnapshotDepth = 2
    StackCap = 3
    MaxAutoAnswers = 0
    MaxLine = 4
INVARIANTS SpentWithinLimit
CHECK_DEADLOCK FALSE

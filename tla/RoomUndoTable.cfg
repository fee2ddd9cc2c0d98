\* The ring, who may undo what, and the automatic answers: plays that end the
\* game, reveal a vote or queue a prompt, and a bot.
\* A behaviour ends when the line is full and the ring is empty.
SPECIFICATION HSpec
CONSTANTS
    h1 = h1
    h2 = h2
    b1 = b1
    Nil = Nil
    NoClone = NoClone
    Humans <- MCHumans
    Bots <- MCBots
    Effects <- RingEffects
    Limits <- NoLimit
    SnapshotDepth = 2
    StackCap = 3
    MaxAutoAnswers = 2
    MaxLine = 3
SYMMETRY People
INVARIANTS TypeOK UndoneStaysByHand ClonesOnTop RingShadowsLine StampTellsTheTruth LoopQuietWhenFree
PROPERTIES SeatRewindsOnlyItsOwn RemovedSeatStaysOut KeepsTimeline
CHECK_DEADLOCK FALSE

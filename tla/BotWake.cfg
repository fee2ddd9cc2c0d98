\* One bot among people, under fairness of the goroutines.
\* A behaviour ends with the game and its runners.
SPECIFICATION FairSpec
CONSTANTS
    Bots = {b1}
    Writers = {w1, w2}
    MaxActions = 3
    MaxRejects = 2
INVARIANTS TypeOK NoLostWake
PROPERTIES AWaitedSeatMoves RunnersEnd
CHECK_DEADLOCK FALSE

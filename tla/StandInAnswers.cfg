\* Two answers to one away offer, a take-back, an archive or a restart,
\* in a game that is played, ended and undone.
\* A behaviour may end with the game.
SPECIFICATION Spec
CONSTANTS
    Deciders = {d1, d2}
    Presses = {p1}
    Admins = {admin}
    Runners = {r1, r2, r3}
    None = None
SYMMETRY RunnerSymmetry
INVARIANTS TypeOK MarkIsRecorded MarkedSeatIsPlayed
PROPERTIES FirstAnswerWins
CHECK_DEADLOCK FALSE

\* Two presses of the take-back, and a hand-over beside them.
\* A behaviour may end with the game.
SPECIFICATION Spec
CONSTANTS
    Deciders = {d1}
    Presses = {p1, p2}
    Admins = {admin}
    Runners = {r1, r2}
    None = None
SYMMETRY RunnerSymmetry
PROPERTY TakenBackIsMine
CHECK_DEADLOCK FALSE

\* Two tables that do not fit together.
\* A behaviour may end with the tables deleted.
SPECIFICATION Spec
CONSTANTS
    t1 = t1
    t2 = t2
    Tables <- MCTables
    Weight <- MCWeight
    Cap = 2
    None = None
INVARIANTS DeletedIsGone
CHECK_DEADLOCK FALSE

\* One connection, commits of its own and of a bot, under fairness.
\* A behaviour ends when its connections and commits are used up.
SPECIFICATION FairSpec
CONSTANTS
    Tabs = {seat}
    Spectators = {}
    Conns = {c1}
    Callers = {bot}
    None = None
    SendCap = 2
    MaxSeq = 3
    MaxExtra = 1
PROPERTY EveryCommitIsShown
CHECK_DEADLOCK FALSE

\* A seat and a spectator, whose tabs may come back on the other connection,
\* one bot, and channels that overflow.
\* A behaviour ends when its connections and commits are used up.
SPECIFICATION Spec
CONSTANTS
    Tabs = {seat, watcher}
    Spectators = {watcher}
    Conns = {c1, c2}
    Callers = {bot}
    None = None
    SendCap = 2
    MaxSeq = 2
    MaxExtra = 0
SYMMETRY ConnSymmetry
INVARIANTS TypeOK NewestIsOnItsWay AckComesAfterItsState BroadcastsReachOpenChannels WaitedForEveryPump
CHECK_DEADLOCK FALSE

\* A spectator removed while its connection is being answered.
\* A behaviour ends when its connections and commits are used up.
SPECIFICATION Spec
CONSTANTS
    Tabs = {watcher}
    Spectators = {watcher}
    Conns = {c1}
    Callers = {bot}
    None = None
    SendCap = 2
    MaxSeq = 1
    MaxExtra = 1
INVARIANT RemovingAWatcherStopsNoOne
CHECK_DEADLOCK FALSE

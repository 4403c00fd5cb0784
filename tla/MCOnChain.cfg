SPECIFICATION Spec
CONSTANTS
    daemon = daemon once = once h1 = h1 h2 = h2 none = none
    Daemon = daemon Once = once
    Hash = {h1, h2}
    Balances = {0, 1, 3}
    Dust = 1
    Batch = 1
    MaxTx = 2
    MaxMoves = 2
    MaxWork = 2
    MaxFaults = 1
    MaxReorgs = 1
    None = none
INVARIANTS CompletedWasFinal
PROPERTIES CacheConverges FinalIsSettled
CHECK_DEADLOCK FALSE

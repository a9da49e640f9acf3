SPECIFICATION Spec
CONSTANTS
    Rows = {x1, x2}
    NoRow = NoRow
    Runners = {r1, r2}
    NoRunner = NoRunner
    TTL = 1
    MaxPause = 1
    MayMissBeats = FALSE
    MaxFaults = 1
    MayCrash = TRUE
INVARIANTS TypeOK NoOverlap RunningGuarded ClaimedOnce
PROPERTIES TerminalFinal RowsEnd

SPECIFICATION Spec
CONSTANTS
    Tasks = {t1}
    Pollers = {p1, p2}
    Fetchers = {}
    RealtimeTasks = {}
    NewApiTasks = {t1}
    LegacyTasks = {}
    Quotas = {0, 2}
    Actuals = {0, 1, 3}
    ErrorAnswers = TRUE
    MayTimeOut = TRUE
    ChannelMayVanish = TRUE
    LookupMayFail = TRUE
    SettleMayFail = FALSE
    MaxFaults = 2
    MayCrash = TRUE
INVARIANTS TypeOK NoDoubleRefund QuotaIsCharge FailedRefunded
PROPERTIES TerminalKept

SPECIFICATION Spec
CONSTANTS
    Tasks = {t1}
    Pollers = {p1}
    Fetchers = {f1}
    RealtimeTasks = {t1}
    NewApiTasks = {}
    LegacyTasks = {}
    Quotas = {2}
    Actuals = {0}
    ErrorAnswers = FALSE
    MayTimeOut = FALSE
    ChannelMayVanish = FALSE
    LookupMayFail = FALSE
    SettleMayFail = FALSE
    MaxFaults = 0
    MayCrash = FALSE
INVARIANTS FailedRefunded

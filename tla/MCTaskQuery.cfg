SPECIFICATION Spec
CONSTANTS
    Tasks = {t1}
    Pollers = {p1, p2}
    Fetchers = {f1}
    RealtimeTasks = {t1}
    NewApiTasks = {}
    LegacyTasks = {}
    Quotas = {0, 2}
    Actuals = {0, 3}
    ErrorAnswers = FALSE
    MayTimeOut = FALSE
    ChannelMayVanish = TRUE
    LookupMayFail = TRUE
    SettleMayFail = FALSE
    MaxFaults = 1
    MayCrash = FALSE
INVARIANTS NoDoubleRefund

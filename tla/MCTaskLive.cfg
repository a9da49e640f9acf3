SPECIFICATION Spec
CONSTANTS
    Tasks = {t1, t2}
    Pollers = {p1}
    Fetchers = {}
    RealtimeTasks = {}
    NewApiTasks = {t1}
    LegacyTasks = {t2}
    Quotas = {0, 1}
    Actuals = {0}
    ErrorAnswers = FALSE
    MayTimeOut = TRUE
    ChannelMayVanish = FALSE
    LookupMayFail = TRUE
    SettleMayFail = TRUE
    MaxFaults = 1
    MayCrash = FALSE
PROPERTIES TasksEnd

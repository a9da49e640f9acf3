SPECIFICATION Spec
CONSTANTS
    Tasks = {t1}
    Pollers = {p1, p2}
    Fetchers = {}
    RealtimeTasks = {}
    NewApiTasks = {}
    LegacyTasks = {}
    Quotas = {2}
    Actuals = {0}
    ErrorAnswers = FALSE
    MayTimeOut = FALSE
    ChannelMayVanish = FALSE
    LookupMayFail = TRUE
    SettleMayFail = FALSE
    MaxFaults = 1
    MayCrash = FALSE
PROPERTIES TerminalFinal

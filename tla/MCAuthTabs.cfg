SPECIFICATION Spec
CONSTANTS
    Tabs = {t1, t2}
    Callers = {t1}
    Signers = {t2}
    MaxLogins = 2
    LockSupport = {TRUE, FALSE}
    MaxUpsets = 1
INVARIANTS TypeOK NoResurrection NoReuseRevocation CookieCurrent
PROPERTIES LoadingEnds DeadSessionLeft
CHECK_DEADLOCK FALSE

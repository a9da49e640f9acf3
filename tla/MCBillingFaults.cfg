SPECIFICATION Spec
CONSTANTS
    Reqs = {r1, r2}
    Kinds = {"relay", "task"}
    Prefs = {"subscription_first"}
    Estimates = {1, 2}
    Actuals = {0, 3}
    WalletInit = 3
    TokenInit = 4
    TokenUnlimited = FALSE
    SubTotal = 4
    WalletOverflow = TRUE
    TrustQuota = 0
    ViolationFee = 0
    RetryTimes = 0
    FaultPoints = {"wallet", "token", "sub", "subRecord"}
    MaxFaults = 2
    MayCrash = TRUE
    MayReset = FALSE
SYMMETRY Symmetry
INVARIANTS TypeOK NoOverRefund SettledExact FinishedExact Reconciled
PROPERTIES CommittedFrozen SourceIsHold TokenIsHold

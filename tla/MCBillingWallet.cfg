SPECIFICATION Spec
CONSTANTS
    Reqs = {r1, r2}
    Kinds = {"relay", "playground"}
    Prefs = {"wallet_first", "subscription_only"}
    Estimates = {3}
    Actuals = {0, 4}
    WalletInit = 5
    TokenInit = 5
    TokenUnlimited = FALSE
    SubTotal = 4
    WalletOverflow = FALSE
    TrustQuota = 4
    ViolationFee = 1
    RetryTimes = 1
    FaultPoints = {}
    MaxFaults = 0
    MayCrash = FALSE
    MayReset = TRUE
INVARIANTS NoOverRefund SettledExact FinishedExact Reconciled PeriodReconciled
PROPERTIES HoldsResolve

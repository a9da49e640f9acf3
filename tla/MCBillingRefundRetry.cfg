SPECIFICATION Spec
CONSTANTS
    Reqs = {r1, r2}
    Kinds = {"relay"}
    Prefs = {"subscription_only"}
    Estimates = {2}
    Actuals = {2}
    WalletInit = 4
    TokenInit = 4
    TokenUnlimited = FALSE
    SubTotal = 4
    WalletOverflow = TRUE
    TrustQuota = 0
    ViolationFee = 0
    RetryTimes = 0
    FaultPoints = {"subRecord"}
    MaxFaults = 2
    MayCrash = FALSE
    MayReset = FALSE
INVARIANTS RefundIdempotent

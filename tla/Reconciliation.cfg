SPECIFICATION ReconciliationSpec
CONSTANTS
    Deposits = {d1, d2}
    Runs = {r1, r2}
    DepositAmount = 2
    YieldAmount = 1
    AlertThreshold = 1
    SuspensionThreshold = 3
    MaxWithdrawals = 1
    MaxYields = 1
    NoReport = NoReport
INVARIANTS ReconciliationTypeOK ReportFaithful
PROPERTY DriftReported

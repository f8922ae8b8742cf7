\* Do the account and the ledger agree, and does the limit hold?
SPECIFICATION QuotaSpec
CONSTANTS
    MaxRuns = 3
    Users = {u1}
    MonthlyLimits = {2, 4}
    Reservations = {0, 1, 2}
    Charges = {0, 1, 3}
CONSTRAINT BoundedReleases
INVARIANTS QuotaTypeOK LedgerBalances QuotaNeverOverdrawn
PROPERTIES SpendingStopsAtLimit
CHECK_DEADLOCK FALSE

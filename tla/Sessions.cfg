SPECIFICATION Spec
CONSTANTS
    alice = alice
    phone = phone
    fresh1 = fresh1
    fresh2 = fresh2
    None = None
    Users = {alice}
    Tokens = {phone, fresh1, fresh2}
    Addresses = {home}
    LoginCalls = {l1}
    RefreshCalls = {r1, r2}
    Staff <- MCStaff
    Accounts <- MCAccounts
    Outsets <- MCOutsets
    AccessTTL = 1
    RefreshTTL = 2
    Grace = 1
    CallLimit = 1
    MaxPerIP = 1
    IPWindow = 1
    MaxPerEmail = 1
    EmailWindow = 2
    MaxNow = 2
SYMMETRY Interchangeable
INVARIANTS TypeOK AccessIsRecent BudgetHolds
PROPERTIES SessionSpec SessionsEndForCause ReuseEndsSessions
CHECK_DEADLOCK FALSE

SPECIFICATION Spec
SYMMETRY Symmetry
CONSTANTS
    None = None
    ana = ana
    ben = ben
    hana = hana
    annual = annual
    sick = sick
    letter = letter
    Users = {ana, hana}
    Supervisors = {hana}
    Admins = {hana}
    Above <- MCAbove
    DaysPerYear = 2
    Types = {annual, sick}
    Seeded = {annual}
    Variants <- QuotaVariants
    Keys = {letter}
    Filings <- QuotaFilings
    QuotaSettings <- QuotaGrants
    FilingCalls = {f1, f2}
    SettleCalls = {}
    QuotaCalls = {q1, q2}
    LastDay = 2
    MaxLeaves = 2
INVARIANTS
    TypeOK
    ReservedDaysStand
    NeverOverdrawn
    LockedQuotaStands
CHECK_DEADLOCK FALSE

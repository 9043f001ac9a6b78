SPECIFICATION Spec
SYMMETRY Symmetry
CONSTANTS
    None = None
    ana = ana
    ben = ben
    hana = hana
    annual = annual
    sick = sick
    letter = letter
    Users = {ana, ben, hana}
    Supervisors = {ben, hana}
    Admins = {hana}
    Above <- MCAbove
    DaysPerYear = 2
    Types = {annual}
    Seeded = {annual}
    Variants <- DecisionVariants
    Keys = {letter}
    Filings <- DecisionFilings
    QuotaSettings = {}
    FilingCalls = {f1}
    SettleCalls = {s1, s2}
    QuotaCalls = {}
    LastDay = 1
    MaxLeaves = 2
INVARIANTS
    NeverOverdrawn
PROPERTIES
    OwnerNeverReclaims
    FlowSpec
CHECK_DEADLOCK FALSE

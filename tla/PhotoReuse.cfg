SPECIFICATION Spec
SYMMETRY Symmetry
CONSTANTS
    None = None
    ana = ana
    ben = ben
    hana = hana
    done = done
    day = day
    night = night
    selfie1 = selfie1
    selfie2 = selfie2
    selfie3 = selfie3
    DayLength = 6
    OpensBefore = 1
    MaxOpen = 6
    ClosesAfter = 2
    Slack = 3
    Users = {ana, hana}
    Supervisors = {hana}
    Admins = {hana}
    Above <- MCAbove
    Schedules = {day, night}
    Edits <- FixedEdits
    Roster <- MCRoster
    Replans <- MCReplans
    Keys = {selfie1, selfie2, selfie3}
    Owner <- MCOwner
    Reports = {}
    Proposals <- MCProposals
    MarkCalls = {m1, m2}
    ProposeCalls = {p1}
    ApproveCalls = {a1}
    FirstTick = 6
    LastTick = 11
    MaxCorrections = 1
INVARIANTS
    PhotoBacksOneMark
CHECK_DEADLOCK FALSE

SPECIFICATION Spec
SYMMETRY Symmetry
CONSTANTS
    None = None
    ana = ana
    ben = ben
    hana = hana
    done = done
    day = day
    night = night
    selfie1 = selfie1
    selfie2 = selfie2
    selfie3 = selfie3
    DayLength = 6
    OpensBefore = 1
    MaxOpen = 6
    ClosesAfter = 2
    Slack = 3
    Users = {ana, hana}
    Supervisors = {hana}
    Admins = {hana}
    Above <- MCAbove
    Schedules = {day, night}
    Edits <- MCEdits
    Roster <- MCRoster
    Replans <- MCReplans
    Keys = {selfie1, selfie2}
    Owner <- MCOwner
    Reports = {done}
    Proposals <- MCProposals
    MarkCalls = {m1}
    ProposeCalls = {p1}
    ApproveCalls = {a1, a2}
    FirstTick = 6
    LastTick = 9
    MaxCorrections = 2
INVARIANTS
    MeasuresAgree
PROPERTIES
    EditedOnlyByCorrection
    FlowSpec
CHECK_DEADLOCK FALSE

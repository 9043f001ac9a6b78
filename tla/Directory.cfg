SPECIFICATION Spec
SYMMETRY Symmetry
CONSTANTS
    None = None
    root = root
    ben = ben
    cem = cem
    dan = dan
    Users = {root, ben, cem, dan}
    Staff <- MCStaff
    Newcomers <- MCNewcomers
    Edits <- MCEdits
    Leavers = {ben}
    Grants <- MCGrants
    WriteCalls = {w1, w2}
    RemoveCalls = {r1}
    GrantCalls = {g1, g2}
    MaxAudit = 2
INVARIANTS
    TypeOK
    HierarchySound
    RolesAudited
PROPERTIES
    RemovalKeepsReach
    RemovedStays
CHECK_DEADLOCK FALSE

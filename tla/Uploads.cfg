SPECIFICATION Spec
CONSTANTS
    None = None
    Users = {ann, ben}
    Purposes = {"attendance_photo", "leave_attachment"}
    maxBytes <- MCmaxBytes
    types <- MCtypes
    Sizes = {0, 1, 2}
    Types = {"jpeg", "pdf", "html"}
    Keys = {k1}
    MaxPuts = 3
    Calls = {c1, c2, c3}
SYMMETRY Interchangeable
INVARIANTS TypeOK CommittedIsAllowed VerifiedStays
PROPERTIES OnlyRefusedIsDeleted
CHECK_DEADLOCK FALSE

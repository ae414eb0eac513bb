SPECIFICATION FairSpec
CONSTANTS
    u1 = u1
    u2 = u2
    Users = {u1, u2}
    Admins = {u2}
    Orders <- ExecOrders
    Inviting <- InvitingOrders
    Requests = {q1, q2}
    MaxJobs = 2
    MaxFaults = 1
INVARIANTS
    TypeOK
    Mandate
    DoneIsTrue
PROPERTIES
    NeverReopened
    Settles
CHECK_DEADLOCK FALSE

SPECIFICATION Spec
CONSTANTS
    u1 = u1
    u2 = u2
    Users = {u1, u2}
    Admins = {u2}
    Orders <- CommandOrders
    Inviting = {}
    Requests = {q1, q2}
    MaxJobs = 2
    MaxFaults = 0
INVARIANTS
    RunsOnce
CHECK_DEADLOCK FALSE

SPECIFICATION Spec
CONSTANTS
    u1 = u1
    u2 = u2
    Users = {u1, u2}
    Admins = {u2}
    Targets <- RaceTargets
    Overrides = {}
    Requests = {q1, q2}
    MaxInstances = 1
    MaxNodes = 2
    MaxFaults = 1
    Env = {"invite"}
SYMMETRY Servers
INVARIANTS
    TypeOK
    Mandate
CHECK_DEADLOCK FALSE

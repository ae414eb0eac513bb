SPECIFICATION Spec
CONSTANTS
    u1 = u1
    u2 = u2
    Users = {u1, u2}
    Admins = {u2}
    Targets <- ApprovalTargets
    Overrides <- SentLists
    Requests = {q1}
    MaxInstances = 2
    MaxNodes = 2
    MaxFaults = 1
    Env = {"view", "invite"}
INVARIANTS
    SomebodyIsAwaited
    OneApprovalOfScript
PROPERTIES
    KeepsPromise

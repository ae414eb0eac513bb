CONSTANTS
    Jobs = {j1, j2}
    NodeJobs = {j1}
    Coros = {c1, c2, c3}
    MaxFaults = 0
    Env = {}
SPECIFICATION Spec
INVARIANTS TaskVerdict

CHECK_DEADLOCK FALSE

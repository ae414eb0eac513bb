CONSTANTS
    Jobs = {j1}
    NodeJobs = {j1}
    Coros = {c1, c2}
    MaxFaults = 2
    Env = {"viewer", "submit", "terminate", "cancel", "force"}
SPECIFICATION FairSpec
INVARIANTS TypeOK SlotOwned
PROPERTIES NotAfterSuccess NoRerun EveryJobEnds
CHECK_DEADLOCK FALSE
